---- MODULE Spec2Model ----
(***************************************************************************)
(* KWDB kwdbts2: metrics storage (entity-group / partition / block         *)
(* items), the batch write path, tombstoning, the raw and aggregate        *)
(* iterators, the entity-group drop lock and the mini-transaction API.     *)
(*                                                                         *)
(* One metric column "v" (column 1) next to the timestamp column 0.        *)
(* A cell is a null bit plus a value; timestamps are in milliseconds,      *)
(* partition times in seconds, as in the source.                           *)
(***************************************************************************)
EXTENDS Integers, Sequences, FiniteSets, TLC

VARIABLES
  store,            \* partition time -> sequence of block items (with their cells)
  block_rows,       \* configured row capacity of a block
  wr,               \* the PutData call in flight (its locals), pc = "idle" when none
  written,          \* history: rows handed to PutData, in call order
  dedup_seen,       \* history: some put met an (entity, timestamp) collision
  ndel,             \* history: number of DeleteData calls so far
  last_del,         \* history: the last DeleteData call and the count it reported
  iter,             \* the raw iterator under test (TsRawDataIterator), or NoIter
  ret,              \* what the last Next call returned
  mtr,              \* mini-transaction id -> "none" | "active" | "committed" | "aborted"
  alive,            \* the process is running (FALSE between kill and restart)
  drop_mutex,       \* TsEntityGroup::drop_mutex_: [readers, writer]
  th,               \* thread -> where it is inside an entity-group API call
  iters_live,       \* number of TsIterator objects constructed and not yet destroyed
  dropped,          \* the entity-group's tag table and directory were removed
  restarts,         \* number of kill / restart cycles so far
  col_type,         \* declared type of the metric column
  rd,               \* a Next call of the iterator running beside the writer
  wal,              \* the entity-group's write-ahead log: the records appended
  pcache,           \* the partition cache: reference counts and their holders
  api,              \* the tag table, the range groups and the last call's status
  heap,             \* the string heap: mapping generation, its rwlock, the reader threads
  hidx,             \* the hash index: bucket count, chains, the latest put per key, last call
  op,               \* the tag scan operator: its inputs, handler position and last call
  fl,               \* the first/last candidates while rows are accumulated
  ea,               \* entity allocation: the tag table rows, the allocated entities, mutex_, the callers
  ddl,              \* the table's metric schema, the entity groups' columns and the last DDL call
  lp,               \* the partition loop of putDataColumnar: its cursor, the partitions' validity, its outcome
  tab,               \* the table: entity_bt_, entity_groups_, its lock, the group directories, the calling threads
  tg,               \* the entity group's tag table: tag_bt_, its reference count, the last tag-schema call
  ds                \* the distinct operator: seen, the offset and limit counters, the keys emitted and skipped

vars == <<store, block_rows, wr, written, dedup_seen, ndel, last_del, iter, ret,
          mtr, alive, drop_mutex, th, iters_live, dropped, restarts, col_type, rd, wal, pcache, api, heap, hidx, op, fl, ea, ddl, lp, tab, tg, ds>>

(***************************************************************************)
(* Bounds and input sets                                                   *)
(***************************************************************************)
MaxRows == 3            \* rows handed to PutData in one behaviour
MaxDeletes == 2         \* DeleteData calls in one behaviour
MaxBlockRows == 3       \* largest configured block capacity tried
MaxPayloadRows == 2     \* rows of one payload

Entities == {1, 2}
TsValues == {1000, 1400, 1800, 2000}
Values == {1, 2}

INVALID_TS == -1
PartitionInterval == 1
NativeMax == 2           \* scaled-down largest value of a narrow integer column (INT32)
PromotedMax == 4         \* scaled-down largest value of int64

\* column types; INT32 stands for INT8 / INT16 / INT32
ColTypes == {"INT32", "INT64", "FLOAT", "DOUBLE"}
IsIntType(t) == t \in {"INT32", "INT64"}
\* the largest value of the column's native range
NativeMaxOf(t) == IF t = "INT32" THEN NativeMax ELSE PromotedMax

SpanChoices ==
  { <<[begin |-> 0, end |-> 3000]>>,
    <<[begin |-> 1000, end |-> 1400]>>,
    <<[begin |-> 1400, end |-> 2000]>>,
    <<[begin |-> 1000, end |-> 1000], [begin |-> 1800, end |-> 1800]>> }

AllSpan == <<[begin |-> 0, end |-> 3000]>>

Cells == {[null |-> TRUE, val |-> 0]} \cup {[null |-> FALSE, val |-> v] : v \in Values}

(***************************************************************************)
(* Small helpers                                                           *)
(***************************************************************************)
MinOf(a, b) == IF a < b THEN a ELSE b
MaxOf(a, b) == IF a > b THEN a ELSE b

SetMin(S) == CHOOSE x \in S : \A y \in S : x <= y
SetMax(S) == CHOOSE x \in S : \A y \in S : x >= y

RECURSIVE SortedSeq(_)
SortedSeq(S) == IF S = {} THEN <<>> ELSE <<SetMin(S)>> \o SortedSeq(S \ {SetMin(S)})

Reverse(s) == [i \in 1..Len(s) |-> s[Len(s) + 1 - i]]

RECURSIVE SeqSum(_)
SeqSum(s) == IF s = <<>> THEN 0 ELSE Head(s) + SeqSum(Tail(s))

\* a value stored in the column's native width wraps around
Wrap(x) == ((x + (NativeMax + 1)) % (2 * (NativeMax + 1))) - (NativeMax + 1)

\* ts lies inside some span (inclusive bounds)
checkIfTsInSpan(spans, ts) ==
  \E i \in 1..Len(spans) : spans[i].begin <= ts /\ ts <= spans[i].end

\* [begin, end] lies inside one span
isTimestampWithinSpans(spans, begin, end) ==
  \E i \in 1..Len(spans) : spans[i].begin <= begin /\ end <= spans[i].end

\* [begin, end] overlaps some span
isTimestampInSpans(spans, begin, end) ==
  \E i \in 1..Len(spans) : ~(begin > spans[i].end \/ end < spans[i].begin)

PartitionTime(ts_sec) == (ts_sec \div PartitionInterval) * PartitionInterval

PartitionTimes == {PartitionTime(t \div 1000) : t \in TsValues}

(***************************************************************************)
(* Block items and cells                                                   *)
(***************************************************************************)
NewBlock(e) ==
  [entity_id |-> e, rows |-> <<>>, publish_row_count |-> 0, deleted |-> {},
   is_agg_res_available |-> FALSE, is_overflow |-> FALSE,
   min_ts |-> 0, max_ts |-> 0, count |-> 0, min |-> 0, max |-> 0, sum |-> 0]

\* MMapSegmentTable push_to_column for one row: cells, null bitmap, count,
\* min/max, sum (native width, overflow flagged)
AppendRow(b, r) ==
  LET first == Len(b.rows) = 0
      firstv == b.count = 0
  IN [b EXCEPT
        !.rows = Append(@, r),
        !.min_ts = IF first THEN r.ts ELSE MinOf(@, r.ts),
        !.max_ts = IF first THEN r.ts ELSE MaxOf(@, r.ts),
        !.count = IF r.null THEN @ ELSE @ + 1,
        !.min = IF r.null THEN @ ELSE IF firstv THEN r.val ELSE MinOf(@, r.val),
        !.max = IF r.null THEN @ ELSE IF firstv THEN r.val ELSE MaxOf(@, r.val),
        !.sum = IF r.null THEN @
                ELSE IF col_type = "INT32" THEN Wrap(@ + r.val)
                ELSE IF col_type = "INT64" /\ @ + r.val > PromotedMax THEN PromotedMax
                ELSE @ + r.val,
        !.is_overflow = @ \/ (~r.null /\ IsIntType(col_type)
                                      /\ (b.sum + r.val > NativeMaxOf(col_type)))]

\* the entity's tail block with free space, 0 when a new block is needed
TailBlock(blocks, e, R) ==
  LET mine == {i \in 1..Len(blocks) : blocks[i].entity_id = e}
  IN IF mine = {} THEN 0
     ELSE IF Len(blocks[SetMax(mine)].rows) < R THEN SetMax(mine) ELSE 0

\* ids <<block, offset_row>> of all rows physically present / published
RowIds(blocks) ==
  UNION {{<<i, k>> : k \in 1..Len(blocks[i].rows)} : i \in 1..Len(blocks)}

PubRowIds(blocks) ==
  UNION {{<<i, k>> : k \in 1..blocks[i].publish_row_count} : i \in 1..Len(blocks)}

\* live rows of the entity with this timestamp, not already marked for deletion
DupRows(blocks, e, ts, del_rows) ==
  {rid \in RowIds(blocks) :
      /\ blocks[rid[1]].entity_id = e
      /\ rid[2] \notin blocks[rid[1]].deleted
      /\ rid \notin del_rows
      /\ blocks[rid[1]].rows[rid[2]].ts = ts}

AddSpan(spans, blk, off) ==
  IF spans # <<>> /\ spans[Len(spans)].block = blk
       /\ spans[Len(spans)].start + spans[Len(spans)].num = off
  THEN [spans EXCEPT ![Len(spans)].num = @ + 1]
  ELSE Append(spans, [block |-> blk, start |-> off, num |-> 1])

\* MMapPartitionTable::push_back_payload: reserve space in the entity's
\* blocks and write rows payload[start+1 .. start+num]; dedup per rule.
\* acc = [blocks, spans, del_rows, dup, dedup_rows]; dedup_rows counts the
\* rows dropped under REJECT and DISCARD (DedupResult)
RECURSIVE PushRows(_, _, _, _, _, _, _)
PushRows(acc, e, payload, i, last, rule, R) ==
  IF i > last THEN acc
  ELSE
    LET r == payload[i]
        dups == DupRows(acc.blocks, e, r.ts, acc.del_rows)
        skip == dups # {} /\ rule \in {"KEEP", "REJECT", "DISCARD"}
        tb == TailBlock(acc.blocks, e, R)
        blocks1 == IF tb = 0 THEN Append(acc.blocks, NewBlock(e)) ELSE acc.blocks
        bi == IF tb = 0 THEN Len(blocks1) ELSE tb
        blocks2 == [blocks1 EXCEPT ![bi] = AppendRow(@, r)]
        acc2 == IF skip
                THEN [acc EXCEPT !.dup = TRUE,
                                 !.dedup_rows = IF rule \in {"REJECT", "DISCARD"}
                                                THEN @ + 1 ELSE @]
                ELSE [blocks |-> blocks2,
                      spans |-> AddSpan(acc.spans, bi, Len(blocks2[bi].rows)),
                      del_rows |-> acc.del_rows \cup dups,
                      dup |-> acc.dup \/ dups # {},
                      dedup_rows |-> acc.dedup_rows]
    IN PushRows(acc2, e, payload, i + 1, last, rule, R)

\* errcode is DEDUPREJECT when a row was dropped under REJECT, the error
\* putDataColumnar tests for
push_back_payload(blocks, e, payload, start, num, rule, R) ==
  LET res == PushRows([blocks |-> blocks, spans |-> <<>>, del_rows |-> {}, dup |-> FALSE,
                       dedup_rows |-> 0],
                      e, payload, start + 1, start + num, rule, R)
  IN res @@ [errcode |-> IF rule = "REJECT" /\ res.dup THEN "DEDUPREJECT" ELSE "OK"]

RECURSIVE PublishSpans(_, _, _)
PublishSpans(blocks, spans, success) ==
  IF spans = <<>> THEN blocks
  ELSE
    LET s == Head(spans)
        b == blocks[s.block]
        b2 == [b EXCEPT
                 !.publish_row_count = @ + s.num,
                 !.deleted = IF success THEN @ ELSE @ \cup (s.start .. s.start + s.num - 1)]
    IN PublishSpans([blocks EXCEPT ![s.block] = b2], Tail(spans), success)

\* a publish that declares the aggregates of every block it touched
\* available, full or not
publish_payload_spaceAnyBlock(blocks, spans, del_rows, success, R) ==
  LET touched == {spans[i].block : i \in 1..Len(spans)}
      b1 == PublishSpans(blocks, spans, success)
  IN [i \in 1..Len(b1) |->
        IF i \in touched THEN [b1[i] EXCEPT !.is_agg_res_available = success]
        ELSE b1[i]]

\* MMapPartitionTable::publish_payload_space: make the reserved rows visible
\* (or mark them deleted when the put failed); a block that became full has
\* its aggregates made available; the rows dedup replaced are tombstoned and
\* their blocks lose is_agg_res_available
publish_payload_space(blocks, spans, del_rows, success, R) ==
  LET touched == {spans[i].block : i \in 1..Len(spans)}
      b1 == PublishSpans(blocks, spans, success)
      b2 == [i \in 1..Len(b1) |->
               IF i \in touched
               THEN [b1[i] EXCEPT !.is_agg_res_available =
                                     success /\ b1[i].publish_row_count >= R]
               ELSE b1[i]]
  IN [i \in 1..Len(b2) |->
        IF success /\ \E x \in del_rows : x[1] = i
        THEN [b2[i] EXCEPT !.deleted = @ \cup {x[2] : x \in {y \in del_rows : y[1] = i}},
                           !.is_agg_res_available = FALSE]
        ELSE b2[i]]

\* a delete that also takes the deleted rows at the end of a block out of
\* its published count
PartitionDeleteDataShrink(blocks, e, spans) ==
  LET hit(i) == {k \in 1..blocks[i].publish_row_count :
                    /\ blocks[i].entity_id = e
                    /\ k \notin blocks[i].deleted
                    /\ checkIfTsInSpan(spans, blocks[i].rows[k].ts)}
      live(i) == (1..blocks[i].publish_row_count) \ (blocks[i].deleted \cup hit(i))
      cnts == [i \in 1..Len(blocks) |-> Cardinality(hit(i))]
  IN [blocks |-> [i \in 1..Len(blocks) |->
                    IF hit(i) = {} THEN blocks[i]
                    ELSE [blocks[i] EXCEPT
                            !.deleted = @ \cup hit(i),
                            !.is_agg_res_available = FALSE,
                            !.publish_row_count = SetMax(live(i) \cup {0})]],
      cnt |-> SeqSum(cnts)]

\* MMapPartitionTable::DeleteData: tombstone the entity's live published
\* rows inside ts_spans; [blocks, cnt]
PartitionDeleteData(blocks, e, spans) ==
  LET hit(i) == {k \in 1..blocks[i].publish_row_count :
                    /\ blocks[i].entity_id = e
                    /\ k \notin blocks[i].deleted
                    /\ checkIfTsInSpan(spans, blocks[i].rows[k].ts)}
      cnts == [i \in 1..Len(blocks) |-> Cardinality(hit(i))]
  IN [blocks |-> [i \in 1..Len(blocks) |->
                    IF hit(i) = {} THEN blocks[i]
                    ELSE [blocks[i] EXCEPT !.deleted = @ \cup hit(i),
                                           !.is_agg_res_available = FALSE]],
      cnt |-> SeqSum(cnts)]

\* EntityItem of a partition: rows written and the timestamp range recorded
EntityItem(blocks, e) ==
  LET mine == {rid \in PubRowIds(blocks) : blocks[rid[1]].entity_id = e}
      ts == {blocks[rid[1]].rows[rid[2]].ts : rid \in mine}
  IN [row_written |-> Cardinality(mine),
      min_ts |-> IF ts = {} THEN INVALID_TS ELSE SetMin(ts),
      max_ts |-> IF ts = {} THEN INVALID_TS ELSE SetMax(ts)]

\* SubEntityGroupManager::GetPartitionTables: existing partitions that
\* overlap [p_span.begin, p_span.end] (seconds), in ascending time order
GetPartitionTables(st, p_span) ==
  SortedSeq({p \in PartitionTimes :
               /\ Len(st[p]) > 0
               /\ p + PartitionInterval - 1 >= p_span.begin
               /\ p <= p_span.end})

\* MMapPartitionTable::GetAllBlockItems: the entity's block items ordered by
\* min_ts (ties by block id), reversed on request; block indexes
GetAllBlockItems(blocks, e, reverse) ==
  LET mine == {i \in 1..Len(blocks) : blocks[i].entity_id = e}
      keys == {blocks[i].min_ts * 100 + i : i \in mine}
      fwd == [j \in 1..Cardinality(mine) |-> SortedSeq(keys)[j] % 100]
  IN IF reverse THEN Reverse(fwd) ELSE fwd

(***************************************************************************)
(* TsEntityGroup write path                                                *)
(***************************************************************************)
NoInfo == [p \in PartitionTimes |-> [used |-> FALSE, spans |-> <<>>, del_real_rows |-> {}]]

IdleWr ==
  [pc |-> "idle", entity_id |-> 0, payload |-> <<>>, dedup_rule |-> "OVERRIDE",
   batch_start |-> 0, last_p_time |-> 0, info |-> NoInfo, all_success |-> TRUE,
   dup |-> FALSE, errcode |-> "OK", status |-> "SUCCESS", dedup_rows |-> 0,
   lsn |-> 0]

\* no DeleteData call since the last publish
NoDel == [entity_id |-> 0, spans |-> <<>>, count |-> 0, calls |-> 0]

RowPartition(r) == PartitionTime(r.ts \div 1000)

\* a slicing that stops after the payload's first partition
payloadFirstSliceOnly(payload, last_p_time, start_row) ==
  IF start_row >= 1 \/ start_row >= Len(payload)
  THEN [found |-> FALSE, end_row |-> start_row, cur_p_time |-> last_p_time]
  ELSE
    LET other == {row_id \in start_row..(Len(payload) - 1) :
                     PartitionTime(payload[row_id + 1].ts \div 1000) # last_p_time}
    IN [found |-> TRUE,
        end_row |-> IF other # {} THEN SetMin(other) ELSE Len(payload),
        cur_p_time |-> last_p_time]

\* TsEntityGroup::payloadNextSlice: rows are 0-based in the source;
\* [found, end_row, cur_p_time]
payloadNextSlice(payload, last_p_time, start_row) ==
  IF start_row >= Len(payload)
  THEN [found |-> FALSE, end_row |-> start_row, cur_p_time |-> last_p_time]
  ELSE
    LET other == {row_id \in start_row..(Len(payload) - 1) :
                     RowPartition(payload[row_id + 1]) # last_p_time}
    IN IF other # {}
       THEN [found |-> TRUE, end_row |-> SetMin(other),
             cur_p_time |-> RowPartition(payload[SetMin(other) + 1])]
       ELSE [found |-> TRUE, end_row |-> Len(payload),
             cur_p_time |-> RowPartition(payload[Len(payload)])]

\* a recording that forgets the rows dedup wants removed
recordPutAfterProInfoNoDel(info, p, spans, del_rows) ==
  [info EXCEPT ![p] = [used |-> TRUE,
                       spans |-> @.spans \o spans,
                       del_real_rows |-> @.del_real_rows]]

\* TsEntityGroup::recordPutAfterProInfo
recordPutAfterProInfo(info, p, spans, del_rows) ==
  [info EXCEPT ![p] = [used |-> TRUE,
                       spans |-> @.spans \o spans,
                       del_real_rows |-> @.del_real_rows \cup del_rows]]

RECURSIVE PublishAll(_, _, _, _, _)
PublishAll(st, info, ps, success, R) ==
  IF ps = <<>> THEN st
  ELSE
    LET p == Head(ps)
    IN PublishAll([st EXCEPT ![p] = publish_payload_space(@, info[p].spans,
                                                         info[p].del_real_rows, success, R)],
                  info, Tail(ps), success, R)

\* a processing that hands no tombstoned row to the partitions
putAfterProcessNoRows(st, info, success, R) ==
  PublishAll(st, [p \in PartitionTimes |-> [info[p] EXCEPT !.del_real_rows = {}]],
             SortedSeq({p \in PartitionTimes : info[p].used}), success, R)

\* a processing that publishes whatever the outcome of the put
putAfterProcessPublish(st, info, success, R) ==
  PublishAll(st, info, SortedSeq({p \in PartitionTimes : info[p].used}), TRUE, R)

\* TsEntityGroup::putAfterProcess: publish in every partition written to
putAfterProcess(st, info, success, R) ==
  PublishAll(st, info, SortedSeq({p \in PartitionTimes : info[p].used}), success, R)

\* the LSN slot of the payload after the test of TsEntityGroup::PutData: a
\* slot the caller left at 0 is set to the mark LsnExists
LsnExists == 1
PayloadLsn(pl_lsn) == IF pl_lsn = 0 THEN LsnExists ELSE pl_lsn

\* TsEntityGroup::PutData for a payload whose LSN slot holds pl_lsn: resolve
\* the entity, then enter putDataColumnar
PutDataLsn(e, payload, rule, pl_lsn) ==
  /\ alive
  /\ wr.pc = "idle"
  /\ Len(payload) > 0
  /\ Len(written) + Len(payload) <= MaxRows
  /\ wr' = [IdleWr EXCEPT !.pc = "slice", !.entity_id = e, !.payload = payload,
                          !.dedup_rule = rule,
                          !.last_p_time = RowPartition(payload[1]),
                          !.lsn = PayloadLsn(pl_lsn)]
  /\ written' = written \o [i \in 1..Len(payload) |-> [entity_id |-> e, row |-> payload[i]]]
  /\ last_del' = last_del
  /\ UNCHANGED <<store, block_rows, dedup_seen, ndel, iter, ret, mtr, alive,
                 drop_mutex, th, iters_live, dropped, restarts, col_type, rd, wal, pcache, api, heap, hidx, op, fl, ea, ddl, lp, tab, tg, ds>>

\* TsEntityGroup::PutData for a payload whose LSN slot the caller left at 0
PutData(e, payload, rule) == PutDataLsn(e, payload, rule, 0)

\* one iteration of the while (payloadNextSlice(...)) loop of putDataColumnar;
\* fault names the call of the iteration that fails with an error other
\* than a dedup rejection ("none": no such failure)
PutSliceWith(fault) ==
  /\ alive
  /\ wr.pc = "slice"
  /\ LET ns == payloadNextSlice(wr.payload, wr.last_p_time, wr.batch_start)
         p == wr.last_p_time
         res == push_back_payload(store[p], wr.entity_id, wr.payload, wr.batch_start,
                                  ns.end_row - wr.batch_start, wr.dedup_rule, block_rows)
         errcode == IF fault = "push_back_payload" THEN "FAIL" ELSE res.errcode
     IN /\ ns.found
        /\ IF fault = "GetPartitionTable"
           THEN /\ store' = store
                /\ wr' = [wr EXCEPT !.pc = "after", !.all_success = FALSE,
                                    !.errcode = "FAIL"]
           ELSE /\ store' = [store EXCEPT ![p] = res.blocks]
                /\ wr' = [wr EXCEPT
                            !.last_p_time = ns.cur_p_time,
                            !.batch_start = IF errcode # "OK" THEN @ ELSE ns.end_row,
                            !.info = recordPutAfterProInfo(@, p, res.spans, res.del_rows),
                            !.dup = @ \/ res.dup,
                            !.dedup_rows = @ + res.dedup_rows,
                            !.errcode = errcode,
                            !.all_success = (errcode = "OK"),
                            !.pc = IF errcode # "OK" THEN "after" ELSE "slice"]
  /\ UNCHANGED <<block_rows, written, dedup_seen, ndel, last_del, iter, ret, mtr,
                 alive, drop_mutex, th, iters_live, dropped, restarts, col_type, rd, wal, pcache, api, heap, hidx, op, fl, ea, ddl, lp, tab, tg, ds>>

PutSlice == PutSliceWith("none")

\* an iteration in which GetPartitionTable or push_back_payload fails
PutSliceFault == \E fault \in {"GetPartitionTable", "push_back_payload"} : PutSliceWith(fault)

\* a return that reports every failure
ReturnStatusAnyFailure(all_success, errcode) ==
  IF ~all_success THEN "FAIL" ELSE "SUCCESS"

\* the return of putDataColumnar: if (!all_success) { if (err_info.errcode ==
\* DEDUPREJECT) return SUCCESS; return FAIL; } return SUCCESS;
ReturnStatus(all_success, errcode) ==
  IF ~all_success
  THEN IF errcode = "DEDUPREJECT" THEN "SUCCESS" ELSE "FAIL"
  ELSE "SUCCESS"

\* the loop has ended or was left by break: putAfterProcess publishes or
\* releases, and the call returns SUCCESS unless it failed with an error
\* other than DEDUPREJECT
PutAfterProcess ==
  /\ alive
  /\ \/ wr.pc = "after"
     \/ /\ wr.pc = "slice"
        /\ ~payloadNextSlice(wr.payload, wr.last_p_time, wr.batch_start).found
  /\ store' = putAfterProcess(store, wr.info, wr.all_success, block_rows)
  /\ dedup_seen' = (dedup_seen \/ wr.dup)
  /\ wr' = [IdleWr EXCEPT !.errcode = wr.errcode,
                          !.dedup_rows = wr.dedup_rows,
                          !.status = ReturnStatus(wr.all_success, wr.errcode)]
  /\ last_del' = NoDel
  /\ UNCHANGED <<block_rows, written, ndel, iter, ret, mtr, alive, drop_mutex, th,
                 iters_live, dropped, restarts, col_type, rd, wal, pcache, api, heap, hidx, op, fl, ea, ddl, lp, tab, tg, ds>>

(***************************************************************************)
(* TsEntityGroup::DeleteData                                               *)
(***************************************************************************)
SpansMin(spans) == SetMin({spans[i].begin : i \in 1..Len(spans)})
SpansMax(spans) == SetMax({spans[i].end : i \in 1..Len(spans)})

RECURSIVE DeleteInPartitions(_, _, _, _, _)
DeleteInPartitions(st, ps, e, spans, count) ==
  IF ps = <<>> THEN [store |-> st, count |-> count]
  ELSE
    LET r == PartitionDeleteData(st[Head(ps)], e, spans)
    IN DeleteInPartitions([st EXCEPT ![Head(ps)] = r.blocks], Tail(ps), e, spans,
                          count + r.cnt)

\* a DeleteData that only evaluates: it counts the rows and removes none
DeleteDataEvaluateOnly(st, e, spans) ==
  [store |-> st,
   count |-> DeleteInPartitions(st,
                                GetPartitionTables(st, [begin |-> SpansMin(spans) \div 1000,
                                                        end |-> SpansMax(spans) \div 1000]),
                                e, spans, 0).count]

\* [store, count]: the count starts from 0 on every call
EntityGroupDeleteData(st, e, spans) ==
  DeleteInPartitions(st,
                     GetPartitionTables(st, [begin |-> SpansMin(spans) \div 1000,
                                             end |-> SpansMax(spans) \div 1000]),
                     e, spans, 0)

DeleteData(e, spans) ==
  /\ alive
  /\ ndel < MaxDeletes
  /\ LET r == EntityGroupDeleteData(store, e, spans)
     IN /\ store' = r.store
        /\ last_del' = [entity_id |-> e, spans |-> spans, count |-> r.count,
                        calls |-> IF last_del.entity_id = e /\ last_del.spans = spans
                                  THEN 2 ELSE 1]
  /\ ndel' = ndel + 1
  /\ UNCHANGED <<block_rows, wr, written, dedup_seen, iter, ret, mtr, alive,
                 drop_mutex, th, iters_live, dropped, restarts, col_type, rd, wal, pcache, api, heap, hidx, op, fl, ea, ddl, lp, tab, tg, ds>>

(***************************************************************************)
(* TsIterator / TsRawDataIterator                                          *)
(* Indexes cur_entity_idx and cur_p_bts_idx are 0-based as in the source;  *)
(* cur_block_item is a block index of the current partition, 0 for nullptr *)
(***************************************************************************)
NoIter ==
  [valid |-> FALSE, entity_ids |-> <<>>, ts_spans |-> <<>>, is_reversed |-> FALSE,
   p_bts |-> <<>>, cur_entity_idx |-> 0, cur_entity_id |-> 0, cur_p_bts_idx |-> 0,
   block_item_queue |-> <<>>, cur_block_item |-> 0, cur_blockdata_offset |-> 1]

NoRet ==
  [called |-> FALSE, count |-> 0, rows |-> <<>>, entity_id |-> 0, is_finished |-> FALSE,
   fast |-> FALSE, p |-> 0, block |-> 0, first_row |-> 0, odd |-> FALSE]

\* MMapPartitionTable::minTimestamp / maxTimestamp, in seconds
minTimestamp(p) == p
maxTimestamp(p) == p + PartitionInterval - 1

fetchBlockItems(it, st) ==
  [it EXCEPT !.block_item_queue =
     @ \o GetAllBlockItems(st[it.p_bts[it.cur_p_bts_idx + 1]], it.cur_entity_id,
                           it.is_reversed)]

\* TsIterator::Init
TsIteratorInit(it, st, p_bts, is_reversed) ==
  LET it1 == [it EXCEPT !.p_bts = IF is_reversed THEN Reverse(p_bts) ELSE p_bts,
                        !.is_reversed = is_reversed,
                        !.cur_entity_id = IF it.cur_entity_idx < Len(it.entity_ids)
                                          THEN it.entity_ids[it.cur_entity_idx + 1]
                                          ELSE @]
  IN IF it1.cur_p_bts_idx < Len(it1.p_bts) /\ it1.cur_entity_id # 0
     THEN fetchBlockItems(it1, st)
     ELSE it1

\* TsEntityGroup::GetIterator for a raw scan: partitions overlapping the
\* spans in which some listed entity has written rows
GetIterator(st, entity_ids, ts_spans, reverse) ==
  LET p_span == [begin |-> SpansMin(ts_spans) \div 1000, end |-> SpansMax(ts_spans) \div 1000]
      has_data(p) == \E i \in 1..Len(entity_ids) :
                        EntityItem(st[p], entity_ids[i]).row_written > 0
      p_bts == SelectSeq(GetPartitionTables(st, p_span), has_data)
  IN TsIteratorInit([NoIter EXCEPT !.valid = TRUE, !.entity_ids = entity_ids,
                                   !.ts_spans = ts_spans],
                    st, p_bts, reverse)

\* TsIterator::nextBlockItem; [it, rc] with rc = -1 when all partitions are done
RECURSIVE nextBlockItem(_, _)
nextBlockItem(it, st) ==
  IF it.block_item_queue = <<>>
  THEN LET it1 == [it EXCEPT !.cur_block_item = 0, !.cur_p_bts_idx = @ + 1]
       IN IF it1.cur_p_bts_idx >= Len(it1.p_bts)
          THEN [it |-> it1, rc |-> -1]
          ELSE nextBlockItem(fetchBlockItems(it1, st), st)
  ELSE [it |-> [it EXCEPT !.cur_block_item = Head(it.block_item_queue),
                          !.block_item_queue = Tail(it.block_item_queue)],
        rc |-> 0]

LiveInSpan(b, k, spans) ==
  k \notin b.deleted /\ checkIfTsInSpan(spans, b.rows[k].ts)

\* a segment iterator that runs to the last row written, published or not
SegmentIterNextReserved(b, offset, spans) ==
  LET n == Len(b.rows)
      good == {k \in offset..n : LiveInSpan(b, k, spans)}
  IN IF good = {}
     THEN [count |-> 0, first_row |-> offset, offset |-> n + 1]
     ELSE
       LET first == SetMin(good)
           bad == {k \in first..n : ~LiveInSpan(b, k, spans)}
           stop == IF bad = {} THEN n + 1 ELSE SetMin(bad)
       IN [count |-> stop - first, first_row |-> first,
           offset |-> IF bad = {} THEN n + 1 ELSE stop + 1]

\* MMapSegmentTableIterator::Next: from *offset on, skip rows that are
\* tombstoned or outside the spans, then take the longest run of consecutive
\* rows that are live and in span; [count, first_row, offset]
SegmentIterNext(b, offset, spans) ==
  LET n == b.publish_row_count
      good == {k \in offset..n : LiveInSpan(b, k, spans)}
  IN IF good = {}
     THEN [count |-> 0, first_row |-> offset, offset |-> n + 1]
     ELSE
       LET first == SetMin(good)
           bad == {k \in first..n : ~LiveInSpan(b, k, spans)}
           stop == IF bad = {} THEN n + 1 ELSE SetMin(bad)
       IN [count |-> stop - first, first_row |-> first,
           offset |-> IF bad = {} THEN n + 1 ELSE stop + 1]

\* a sequential read optimization that trusts the block's aggregates and
\* looks at no delete flag
RawFastPathNoDeleteCheck(b, offset, spans) ==
  /\ b.is_agg_res_available
  /\ b.publish_row_count > 0
  /\ offset = 1
  /\ isTimestampWithinSpans(spans, b.min_ts, b.max_ts)

\* the sequential read optimization of TsRawDataIterator::Next: the whole
\* block is returned when its aggregates are available, the scan is at the
\* block's first row, [MIN(ts), MAX(ts)] lies within one span and no
\* published row is deleted
RawFastPath(b, offset, spans) ==
  /\ b.is_agg_res_available
  /\ b.publish_row_count > 0
  /\ offset = 1
  /\ isTimestampWithinSpans(spans, b.min_ts, b.max_ts)
  /\ \A cur_row \in 1..b.publish_row_count : cur_row \notin b.deleted

\* TsRawDataIterator::Next; is_finished is TRUE when the call set it.
\* RawNextLoop is the body of its while (true) loop for the iterator state it.
RECURSIVE TsRawDataIteratorNext(_, _, _)
RECURSIVE RawNextLoop(_, _, _)
RawNextLoop(it, st, ts) ==
  IF it.cur_block_item = 0
  THEN
    LET nb == nextBlockItem(it, st)
    IN IF nb.rc < 0
       THEN IF nb.it.cur_entity_idx + 1 >= Len(it.entity_ids)
            THEN [NoRet EXCEPT !.called = TRUE, !.is_finished = TRUE] @@
                 [it |-> [nb.it EXCEPT !.cur_entity_idx = @ + 1]]
            ELSE TsRawDataIteratorNext(
                   [nb.it EXCEPT !.cur_entity_idx = @ + 1,
                                 !.cur_entity_id = it.entity_ids[nb.it.cur_entity_idx + 2],
                                 !.cur_p_bts_idx = -1],
                   st, ts)
       ELSE TsRawDataIteratorNext(nb.it, st, ts)
  ELSE
    LET p == it.p_bts[it.cur_p_bts_idx + 1]
        b == st[p][it.cur_block_item]
    IN IF /\ ts # INVALID_TS
          /\ \/ ~it.is_reversed /\ minTimestamp(p) * 1000 > ts
             \/ it.is_reversed /\ maxTimestamp(p) * 1000 < ts
       THEN [NoRet EXCEPT !.called = TRUE] @@ [it |-> it]
       ELSE
         LET has_data == RawFastPath(b, it.cur_blockdata_offset, it.ts_spans)
             seg == SegmentIterNext(b, it.cur_blockdata_offset, it.ts_spans)
             count == IF has_data THEN b.publish_row_count ELSE seg.count
             first_row == IF has_data THEN 1 ELSE seg.first_row
             off == IF has_data THEN b.publish_row_count + 1 ELSE seg.offset
             it1 == IF off > b.publish_row_count
                    THEN nextBlockItem([it EXCEPT !.cur_blockdata_offset = 1], st).it
                    ELSE [it EXCEPT !.cur_blockdata_offset = off]
         IN IF count > 0
            THEN [called |-> TRUE, count |-> count,
                  rows |-> SubSeq(b.rows, first_row, first_row + count - 1),
                  entity_id |-> it.cur_entity_id, is_finished |-> FALSE,
                  fast |-> has_data, p |-> p, block |-> it.cur_block_item,
                  first_row |-> first_row, odd |-> FALSE, it |-> it1]
            ELSE TsRawDataIteratorNext(it1, st, ts)

TsRawDataIteratorNext(it0, st, ts) ==
  CHOOSE r \in {RawNextLoop(it, st, ts) : it \in {it0}} : TRUE

\* TsTableIterator::Next over iterators_ = <<it>>: the do-while loop calls
\* the iterator's Next and moves to the next iterator when is_finished;
\* [count, current_iter, r] with r the result of the last call
TsTableIteratorNext(it, st, ts) ==
  LET r == TsRawDataIteratorNext(it, st, ts)
  IN [count |-> r.count,
      current_iter |-> IF r.is_finished THEN 1 ELSE 0,
      r |-> r]

\* a caller draining an iterator without a watermark: the rows of every
\* batch, in the order returned
RECURSIVE Drain(_, _)
Drain(it, st) ==
  LET r == TsRawDataIteratorNext(it, st, INVALID_TS)
  IN IF r.is_finished \/ r.count = 0 THEN <<>>
     ELSE [i \in 1..r.count |-> [entity_id |-> r.entity_id, row |-> r.rows[i]]]
          \o Drain(r.it, st)

RawScan(st, entity_ids, ts_spans, reverse) ==
  Drain(GetIterator(st, entity_ids, ts_spans, reverse), st)

(***************************************************************************)
(* TsRawDataIterator::Next beside a writer.  The call is taken statement   *)
(* by statement, each statement reading the block item as it is at that    *)
(* moment; rd holds the locals of the call, out the ids <<partition,       *)
(* block, row>> of the rows returned so far and at_open the ids of the     *)
(* rows that were published and live when the iterator was created.        *)
(***************************************************************************)
NoRd == [pc |-> "none", cur_row |-> 0, count |-> 0, first_row |-> 0,
         out |-> <<>>, at_open |-> {}]

\* ids of the published live rows of the entity
LiveIds(st, e) ==
  UNION {{<<p, rid[1], rid[2]>> :
            rid \in {x \in PubRowIds(st[p]) :
                       /\ st[p][x[1]].entity_id = e
                       /\ x[2] \notin st[p][x[1]].deleted}} : p \in PartitionTimes}

\* the partition and the block item the iterator stands on
CurPartition == iter.p_bts[iter.cur_p_bts_idx + 1]
CurBlock == store[CurPartition][iter.cur_block_item]

\* the test of the sequential read optimization, before its row loop
SequentialReadTest(b, offset, spans) ==
  /\ b.is_agg_res_available
  /\ b.publish_row_count > 0
  /\ offset = 1
  /\ isTimestampWithinSpans(spans, b.min_ts, b.max_ts)

ReaderQuiet ==
  UNCHANGED <<store, block_rows, wr, written, dedup_seen, ndel, last_del, ret, mtr,
              alive, drop_mutex, th, iters_live, dropped, restarts, col_type, wal, pcache, api, heap, hidx, op, fl, ea, ddl, lp, tab, tg, ds>>

\* TsEntityGroup::GetIterator for one entity over the covering span
ReaderOpen(e) ==
  /\ alive
  /\ rd.pc = "none"
  /\ iter' = GetIterator(store, <<e>>, AllSpan, FALSE)
  /\ rd' = [NoRd EXCEPT !.pc = "top", !.at_open = LiveIds(store, e)]
  /\ ReaderQuiet

\* the head of the while (true) loop: nextBlockItem when there is no block
\* item, otherwise the test of the sequential read optimization
ReaderTop ==
  /\ rd.pc = "top"
  /\ IF iter.cur_block_item = 0
     THEN LET nb == nextBlockItem(iter, store)
          IN /\ iter' = nb.it
             /\ rd' = [rd EXCEPT !.pc = IF nb.rc < 0 THEN "done" ELSE "top"]
     ELSE /\ iter' = iter
          /\ rd' = [rd EXCEPT
                      !.count = 0,
                      !.cur_row = 1,
                      !.pc = IF SequentialReadTest(CurBlock, iter.cur_blockdata_offset,
                                                   iter.ts_spans)
                             THEN "fast_loop" ELSE "slow"]
  /\ ReaderQuiet

\* while (cur_row <= publish_row_count) { if (is_deleted) break; ++cur_row; }
ReaderFastLoop ==
  /\ rd.pc = "fast_loop"
  /\ rd' = IF rd.cur_row <= CurBlock.publish_row_count /\ rd.cur_row \notin CurBlock.deleted
           THEN [rd EXCEPT !.cur_row = @ + 1]
           ELSE [rd EXCEPT !.pc = "fast_check"]
  /\ iter' = iter
  /\ ReaderQuiet

\* if (cur_row > publish_row_count) { cur_blockdata_offset_ = cur_row; ...
ReaderFastCheck ==
  /\ rd.pc = "fast_check"
  /\ IF rd.cur_row > CurBlock.publish_row_count
     THEN /\ iter' = [iter EXCEPT !.cur_blockdata_offset = rd.cur_row]
          /\ rd' = [rd EXCEPT !.pc = "fast_count"]
     ELSE /\ iter' = iter
          /\ rd' = [rd EXCEPT !.pc = "slow"]
  /\ ReaderQuiet

\* *count = publish_row_count; first_row = 1; GetBatch(cur_block_item_, 1, ...)
ReaderFastCount ==
  /\ rd.pc = "fast_count"
  /\ LET count == CurBlock.publish_row_count
     IN rd' = [rd EXCEPT
                 !.pc = "advance", !.count = count, !.first_row = 1,
                 !.out = @ \o [k \in 1..count |-> <<CurPartition, iter.cur_block_item, k>>]]
  /\ iter' = iter
  /\ ReaderQuiet

\* segment_iter_->Next(cur_block_item_, &cur_blockdata_offset_, res, count)
ReaderSlow ==
  /\ rd.pc = "slow"
  /\ LET seg == SegmentIterNext(CurBlock, iter.cur_blockdata_offset, iter.ts_spans)
     IN /\ iter' = [iter EXCEPT !.cur_blockdata_offset = seg.offset]
        /\ rd' = [rd EXCEPT
                    !.pc = "advance", !.count = seg.count, !.first_row = seg.first_row,
                    !.out = @ \o [k \in 1..seg.count |->
                                    <<CurPartition, iter.cur_block_item,
                                      seg.first_row + k - 1>>]]
  /\ ReaderQuiet

\* if (cur_blockdata_offset_ > publish_row_count) { offset = 1; nextBlockItem }
\* and the return of the batch, or the next turn of the loop
ReaderAdvance ==
  /\ rd.pc = "advance"
  /\ iter' = IF iter.cur_blockdata_offset > CurBlock.publish_row_count
             THEN nextBlockItem([iter EXCEPT !.cur_blockdata_offset = 1], store).it
             ELSE iter
  /\ rd' = [rd EXCEPT !.pc = "top"]
  /\ ReaderQuiet

(***************************************************************************)
(* TsAggIterator: general path (traverseAllBlocks, Next) for the metric    *)
(* column, with no first/last type requested (no_first_last_type_)         *)
(***************************************************************************)
NonNull(rows) == SelectSeq(rows, LAMBDA r : ~r.null)
ValuesOf(rows) == {rows[i].val : i \in 1..Len(rows)}
ValSum(rows) == SeqSum([i \in 1..Len(rows) |-> rows[i].val])

\* AggCalculator / the notnull_count loop over a run of cells: null bits
\* honoured, the sum in the promoted type
Calculated(rows) ==
  LET nn == NonNull(rows)
  IN [max |-> SetMax(ValuesOf(nn)), min |-> SetMin(ValuesOf(nn)),
      sum |-> ValSum(nn), count |-> Len(nn)]

\* the sequential read optimization of traverseAllBlocks
AggFastPath(b, offset, spans) ==
  /\ b.is_agg_res_available
  /\ b.publish_row_count > 0
  /\ offset = 1
  /\ checkIfTsInSpan(spans, b.max_ts)
  /\ checkIfTsInSpan(spans, b.min_ts)
  /\ \A cur_row \in 1..b.publish_row_count : cur_row \notin b.deleted

\* the row loop of traverseAllBlocks: skip rows that are deleted or outside
\* the spans, count the first run of consecutive qualifying rows
TraverseRun(b, offset, spans) ==
  LET n == b.publish_row_count
      good == {k \in offset..n : LiveInSpan(b, k, spans)}
  IN IF good = {}
     THEN [count |-> 0, first_row |-> 1, offset |-> MaxOf(offset, n + 1)]
     ELSE
       LET first == SetMin(good)
           bad == {k \in first..n : ~LiveInSpan(b, k, spans)}
       IN IF bad = {}
          THEN [count |-> n + 1 - first, first_row |-> first, offset |-> n + 1]
          ELSE [count |-> SetMin(bad) - first, first_row |-> first,
                offset |-> SetMin(bad) + 1]

\* the aggregate batch of one run: recomputed from the cells, or the block's
\* stored aggregates when the run is the whole block and they are available
\* (the stored sum only when it did not overflow); has = FALSE when the
\* column has no value in the run
RunAggregate(b, first_row, count) ==
  LET run == SubSeq(b.rows, first_row, first_row + count - 1)
  IN IF NonNull(run) = <<>>
     THEN [has |-> FALSE, max |-> 0, min |-> 0, sum |-> 0, count |-> 0]
     ELSE IF count < b.publish_row_count \/ ~b.is_agg_res_available
     THEN [has |-> TRUE] @@ Calculated(run)
     ELSE [has |-> TRUE, max |-> b.max, min |-> b.min,
           sum |-> IF b.is_overflow THEN Calculated(run).sum ELSE b.sum,
           count |-> b.count]

NoBatch == [has |-> FALSE, max |-> 0, min |-> 0, sum |-> 0, count |-> 0]

\* TsAggIterator::traverseAllBlocks: [it, count, batch, entity_id] with
\* entity_id the entity of the block item the batch was taken from
RECURSIVE traverseAllBlocks(_, _, _)
RECURSIVE TraverseLoop(_, _, _)
TraverseLoop(it, st, ts) ==
  IF it.cur_block_item = 0
  THEN LET nb == nextBlockItem(it, st)
       IN IF nb.rc < 0
          THEN [it |-> nb.it, count |-> 0, batch |-> NoBatch, entity_id |-> 0,
                p |-> 0, block |-> 0, first_row |-> 0]
          ELSE traverseAllBlocks(nb.it, st, ts)
  ELSE
    LET p == it.p_bts[it.cur_p_bts_idx + 1]
        b == st[p][it.cur_block_item]
        fast == AggFastPath(b, it.cur_blockdata_offset, it.ts_spans)
        run == TraverseRun(b, it.cur_blockdata_offset, it.ts_spans)
        count == IF fast THEN b.publish_row_count ELSE run.count
        first_row == IF fast THEN 1 ELSE run.first_row
        off == IF fast THEN b.publish_row_count + 1 ELSE run.offset
        it1 == IF off > b.publish_row_count
               THEN nextBlockItem([it EXCEPT !.cur_blockdata_offset = 1], st).it
               ELSE [it EXCEPT !.cur_blockdata_offset = off]
    IN IF /\ ts # INVALID_TS
          /\ \/ ~it.is_reversed /\ minTimestamp(p) * 1000 > ts
             \/ it.is_reversed /\ maxTimestamp(p) * 1000 < ts
       THEN [it |-> it, count |-> 0, batch |-> NoBatch, entity_id |-> 0,
                p |-> 0, block |-> 0, first_row |-> 0]
       ELSE IF count > 0
       THEN [it |-> it1, count |-> count, batch |-> RunAggregate(b, first_row, count),
             entity_id |-> b.entity_id, p |-> p, block |-> it.cur_block_item,
             first_row |-> first_row]
       ELSE traverseAllBlocks(it1, st, ts)

traverseAllBlocks(it0, st, ts) ==
  CHOOSE r \in {TraverseLoop(it, st, ts) : it \in {it0}} : TRUE

\* the do { traverseAllBlocks } while (*count != 0) loop of TsAggIterator::Next:
\* the results of the calls that returned rows
RECURSIVE AggRuns(_, _, _)
AggRunsFrom(r, st, ts) ==
  IF r.count = 0 THEN <<>> ELSE <<r>> \o AggRuns(r.it, st, ts)

AggRuns(it, st, ts) == AggRunsFrom(traverseAllBlocks(it, st, ts), st, ts)

\* the batches that carry a value of the column
AggBatches(it, st, ts) ==
  LET runs == AggRuns(it, st, ts)
      with == SelectSeq(runs, LAMBDA r : r.batch.has)
  IN [i \in 1..Len(with) |-> with[i].batch]

\* the integration of the batches into max, min, sum and count;
\* has = FALSE when no result row is produced
Integrate(bs) ==
  IF bs = <<>>
  THEN NoBatch
  ELSE [has |-> TRUE,
        max |-> SetMax({bs[i].max : i \in 1..Len(bs)}),
        min |-> SetMin({bs[i].min : i \in 1..Len(bs)}),
        sum |-> SeqSum([i \in 1..Len(bs) |-> bs[i].sum]),
        count |-> SeqSum([i \in 1..Len(bs) |-> bs[i].count])]

\* TsAggIterator::reset: the next entity, no partition, block item or queue
\* of the entity left behind
reset(it) ==
  [it EXCEPT !.cur_entity_idx = @ + 1, !.cur_p_bts_idx = -1,
             !.block_item_queue = <<>>, !.cur_block_item = 0,
             !.cur_blockdata_offset = 1]

\* a test that holds one entity too early
LastEntityReached(it) == it.cur_entity_idx + 1 >= Len(it.entity_ids)

\* TsAggIterator::Next: if (cur_entity_idx_ >= entity_ids_.size())
AllEntitiesDone(it) == it.cur_entity_idx >= Len(it.entity_ids)

\* TsAggIterator::Next, general path: [it, count, is_finished, res, entity_id,
\* from]; from is the set of entities whose block items were aggregated
TsAggIteratorNextCall(it, st, ts) ==
  IF AllEntitiesDone(it)
  THEN [it |-> it, count |-> 0, is_finished |-> TRUE, res |-> NoBatch,
        entity_id |-> 0, from |-> {}]
  ELSE IF it.p_bts = <<>>
  THEN [it |-> reset(it), count |-> 0, is_finished |-> FALSE, res |-> NoBatch,
        entity_id |-> it.entity_ids[it.cur_entity_idx + 1], from |-> {}]
  ELSE
    LET it1 == [it EXCEPT !.cur_entity_id = it.entity_ids[it.cur_entity_idx + 1]]
        runs == AggRuns(it1, st, ts)
        res == Integrate(AggBatches(it1, st, ts))
    IN [it |-> reset(it1), count |-> IF res.has THEN 1 ELSE 0, is_finished |-> FALSE,
        res |-> res, entity_id |-> it1.cur_entity_id,
        from |-> {runs[i].entity_id : i \in 1..Len(runs)}]

\* TsAggIterator::Next for one entity and no watermark: the result row
TsAggIteratorNext(st, e, ts_spans) ==
  TsAggIteratorNextCall(GetIterator(st, <<e>>, ts_spans, FALSE), st, INVALID_TS).res

(***************************************************************************)
(* TsAggIterator: the type of the SUM result.  A sum batch is              *)
(* [val, type, is_overflow, is_new, stored]; stored tells that the value   *)
(* was read from the block's pre-aggregate.                                *)
(***************************************************************************)
\* a conversion that hands the stored sum on in the column's own type
ChangeSumTypeKeep(type, base) == [val |-> base, type |-> type, is_new |-> FALSE]

\* ChangeSumType: INT8, INT16 and INT32 become int64, FLOAT becomes double,
\* every other type is handed on as it is
ChangeSumType(type, base) ==
  IF type \notin {"INT8", "INT16", "INT32", "FLOAT"}
  THEN [val |-> base, type |-> type, is_new |-> FALSE]
  ELSE IF type = "FLOAT"
  THEN [val |-> base, type |-> "DOUBLE", is_new |-> TRUE]
  ELSE [val |-> base, type |-> "INT64", is_new |-> TRUE]

\* getSumType: the type the sum of a column is accumulated in
getSumType(type) == IF IsIntType(type) THEN "INT64" ELSE "DOUBLE"

\* AggCalculator::GetSum over the cells of a run: the non-null values added
\* in the promoted type; an integer sum beyond it is returned as double
\* with the overflow flag
GetSum(type, rows) ==
  LET s == ValSum(NonNull(rows))
  IN IF IsIntType(type) /\ s > PromotedMax
     THEN [val |-> s, type |-> "DOUBLE", is_overflow |-> TRUE]
     ELSE [val |-> s, type |-> getSumType(type), is_overflow |-> FALSE]

\* AggCalculator::GetSum(&sum_base, sum_base, is_overflow) of the
\* integration: one batch added to the accumulator; a double on either side,
\* or an integer sum beyond the promoted type, makes the accumulator double
GetSumAcc(type, acc, b) ==
  LET s == acc.val + b.val
      over == acc.is_overflow \/ b.is_overflow
              \/ (IsIntType(type) /\ s > PromotedMax)
  IN [val |-> s,
      type |-> IF over THEN "DOUBLE" ELSE getSumType(type),
      is_overflow |-> over]

\* the SUM batch of one run in traverseAllBlocks: recomputed from the cells
\* when the run is not the whole block or the block has no aggregates, or
\* when the block is flagged is_overflow; otherwise the stored sum converted
RunSum(type, b, first_row, count) ==
  LET run == SubSeq(b.rows, first_row, first_row + count - 1)
  IN IF count < b.publish_row_count \/ ~b.is_agg_res_available
     THEN GetSum(type, run) @@ [is_new |-> TRUE, stored |-> FALSE]
     ELSE IF b.is_overflow
     THEN GetSum(type, run) @@ [is_new |-> TRUE, stored |-> FALSE]
     ELSE ChangeSumType(type, b.sum) @@ [is_overflow |-> FALSE, stored |-> TRUE]

\* the SUM batches of the runs that carry a value of the column
SumBatches(type, it, st, ts) ==
  LET runs == AggRuns(it, st, ts)
      with == SelectSeq(runs, LAMBDA r : r.batch.has)
  IN [i \in 1..Len(with) |->
        RunSum(type, st[with[i].p][with[i].block], with[i].first_row,
               with[i].count)]

\* case Sumfunctype::SUM of TsAggIterator::Next: the batches added up
RECURSIVE IntegrateSum(_, _, _)
IntegrateSum(type, acc, bs) ==
  IF bs = <<>> THEN acc
  ELSE IntegrateSum(type, GetSumAcc(type, acc, Head(bs)), Tail(bs))

NoSum == [has |-> FALSE, val |-> 0, type |-> "INT64", is_overflow |-> FALSE]

\* TsAggIterator::Next for one entity, the SUM column of the result row
TsAggIteratorSum(type, st, e, ts_spans) ==
  LET it == [GetIterator(st, <<e>>, ts_spans, FALSE) EXCEPT !.cur_entity_id = e]
      bs == SumBatches(type, it, st, INVALID_TS)
  IN IF bs = <<>> THEN NoSum
     ELSE [has |-> TRUE] @@
          IntegrateSum(type, [val |-> 0, type |-> getSumType(type),
                              is_overflow |-> FALSE], bs)

(***************************************************************************)
(* TsAggIterator: the first/last short-circuit (findFirstData,             *)
(* findLastData) for the metric column.  A candidate is                    *)
(* [found, ts, null, val]; types is the set of requested aggregate types.  *)
(* The scan state carries the candidates, done (has_found), stop_ts - the  *)
(* recorded min_ts / max_ts of the entity the scan stopped at - and order, *)
(* the partitions consulted, in the order of the visits.                   *)
(***************************************************************************)
NoCand == [found |-> FALSE, ts |-> INVALID_TS, null |-> TRUE, val |-> 0]
NoFirstLast ==
  [first |-> NoCand, first_row |-> NoCand, done |-> FALSE, stop_ts |-> INVALID_TS,
   order |-> <<>>]

CandOf(r) == [found |-> TRUE, ts |-> r.ts, null |-> r.null, val |-> r.val]

\* an update of the first candidates that also takes a row of the
\* candidate's own timestamp
updateFirstColsOnEqual(acc, r) ==
  [acc EXCEPT
     !.first = IF (@.ts = INVALID_TS \/ @.ts >= r.ts) /\ ~r.null THEN CandOf(r) ELSE @,
     !.first_row = IF @.ts = INVALID_TS \/ @.ts >= r.ts THEN CandOf(r) ELSE @]

\* TsAggIterator::updateFirstCols
updateFirstCols(acc, r) ==
  [acc EXCEPT
     !.first = IF (@.ts = INVALID_TS \/ @.ts > r.ts) /\ ~r.null THEN CandOf(r) ELSE @,
     !.first_row = IF @.ts = INVALID_TS \/ @.ts > r.ts THEN CandOf(r) ELSE @]

\* TsAggIterator::updateLastCols (the candidates are kept in the same fields)
updateLastCols(acc, r) ==
  [acc EXCEPT
     !.first = IF (@.ts = INVALID_TS \/ @.ts < r.ts) /\ ~r.null THEN CandOf(r) ELSE @,
     !.first_row = IF @.ts = INVALID_TS \/ @.ts < r.ts THEN CandOf(r) ELSE @]

\* TsAggIterator::updateFirstLastCols on the pair of the first and the last
\* candidates: the first rule on the first pairs, the last rule on the last
updateFirstLastCols(pair, r) ==
  [f |-> updateFirstCols(pair.f, r), l |-> updateLastCols(pair.l, r)]

\* hasFoundFirstAggData / hasFoundLastAggData: every requested type has a result
hasFoundAggData(acc, types) ==
  /\ "value" \in types => acc.first.found
  /\ "row" \in types => acc.first_row.found

\* MMapSegmentTable::isAllNullValue over the published rows of the block
isAllNullValue(b) == \A k \in 1..b.publish_row_count : b.rows[k].null

\* the row loop of findFirstData (step = 1, from row 1) and of findLastData
\* (step = -1, from row publish_row_count); done = has_found
RECURSIVE FindRows(_, _, _, _, _, _, _)
FindRows(acc, b, k, step, spans, types, entity_ts) ==
  IF k < 1 \/ k > b.publish_row_count THEN acc
  ELSE IF k \in b.deleted \/ ~checkIfTsInSpan(spans, b.rows[k].ts)
  THEN FindRows(acc, b, k + step, step, spans, types, entity_ts)
  ELSE
    LET acc2 == IF step = 1 THEN updateFirstCols(acc, b.rows[k])
                ELSE updateLastCols(acc, b.rows[k])
    IN IF hasFoundAggData(acc2, types) /\ b.rows[k].ts = entity_ts
       THEN [acc2 EXCEPT !.done = TRUE, !.stop_ts = entity_ts]
       ELSE FindRows(acc2, b, k + step, step, spans, types, entity_ts)

\* the block loop of one partition: the queue is consumed from the front
\* (first) or from the back (last)
RECURSIVE FindBlocks(_, _, _, _, _, _, _)
FindBlocks(acc, blocks, queue, step, spans, types, entity_ts) ==
  IF queue = <<>> \/ acc.done THEN acc
  ELSE
    LET i == IF step = 1 THEN Head(queue) ELSE queue[Len(queue)]
        rest == IF step = 1 THEN Tail(queue) ELSE SubSeq(queue, 1, Len(queue) - 1)
        b == blocks[i]
        skip == \/ b.publish_row_count = 0
                \/ "row" \notin types /\ isAllNullValue(b)
                \/ ~isTimestampInSpans(spans, b.min_ts, b.max_ts)
        acc2 == IF skip THEN acc
                ELSE FindRows(acc, b, IF step = 1 THEN 1 ELSE b.publish_row_count,
                              step, spans, types, entity_ts)
    IN FindBlocks(acc2, blocks, rest, step, spans, types, entity_ts)

\* the partition loop: p_bts[idx + 1], idx moving by step, until every
\* requested type has a result
RECURSIVE FindPartitions(_, _, _, _, _, _, _, _)
FindPartitions(acc, st, p_bts, idx, step, e, spans, types) ==
  IF idx < 0 \/ idx >= Len(p_bts) THEN acc
  ELSE
    LET blocks == st[p_bts[idx + 1]]
        item == EntityItem(blocks, e)
        acc2 == FindBlocks([acc EXCEPT !.order = Append(@, p_bts[idx + 1])], blocks,
                           GetAllBlockItems(blocks, e, FALSE), step, spans,
                           types, IF step = 1 THEN item.min_ts ELSE item.max_ts)
    IN IF hasFoundAggData(acc2, types) THEN acc2
       ELSE FindPartitions(acc2, st, p_bts, idx + step, step, e, spans, types)

Answer(acc, types) ==
  [value |-> IF "value" \in types THEN acc.first ELSE NoCand,
   row |-> IF "row" \in types THEN acc.first_row ELSE NoCand]

\* the partition loop of findFirstData on an iterator opened with the
\* reverse flag: cur_first_idx_ runs from the front of p_bts_
FindFirstScan(st, e, spans, types, is_reversed) ==
  LET it == GetIterator(st, <<e>>, spans, is_reversed)
  IN FindPartitions(NoFirstLast, st, it.p_bts, 0, 1, e, spans, types)

\* the partition loop of findLastData: cur_last_idx_ runs from the back of
\* p_bts_
FindLastScan(st, e, spans, types, is_reversed) ==
  LET it == GetIterator(st, <<e>>, spans, is_reversed)
  IN FindPartitions(NoFirstLast, st, it.p_bts, Len(it.p_bts) - 1, -1, e, spans, types)

\* TsAggIterator::findFirstData for one entity on a forward iterator
findFirstData(st, e, spans, types) ==
  Answer(FindFirstScan(st, e, spans, types, FALSE), types)

\* TsAggIterator::findLastData for one entity on a forward iterator
findLastData(st, e, spans, types) ==
  Answer(FindLastScan(st, e, spans, types, FALSE), types)

(***************************************************************************)
(* The storage specification: puts and deletes on one entity-group         *)
(***************************************************************************)
Mtrs == {1, 2}
Threads == {1, 2, 3}
DedupRules == {"OVERRIDE", "KEEP"}

RowsOf(tss, mtrs) ==
  {[ts |-> t, null |-> c.null, val |-> c.val, mtr |-> m] : t \in tss, c \in Cells, m \in mtrs}

PayloadsOf(rows) == UNION {[1..n -> rows] : n \in 1..MaxPayloadRows}

StorePayloads == PayloadsOf(RowsOf(TsValues, {0}))

\* no entity in the tag table, no entity group in the table, no call made
NoApi ==
  [tags |-> [g \in {1, 2} |-> {}], groups |-> {},
   last |-> [call |-> "none", found |-> TRUE, status |-> "SUCCESS", log |-> "none"]]

\* every partition open and unreferenced, no iterator, no put in progress
NoCache ==
  [ref |-> [p \in PartitionTimes |-> 0], open |-> [p \in PartitionTimes |-> TRUE],
   it_live |-> FALSE, p_bts |-> {}, put_pc |-> "idle", info |-> {}, faults |-> 0]

\* the string heap before any reader or remap: mapping generation 0, the
\* rwlock free, every reader thread outside the accessors
NoHeap ==
  [base |-> 0, writer |-> FALSE, readers |-> {},
   rt |-> [t \in {1, 2} |-> [pc |-> "idle", path |-> "none", ptr |-> -1]],
   deref |-> [by |-> 0, path |-> "none", locked |-> TRUE, fresh |-> TRUE]]

\* the hash index after init: InitBuckets empty chains (chains beyond the
\* bucket count stay empty), no key put, no call made
NoIndex ==
  [n |-> 2, buckets |-> [b \in 0..3 |-> <<>>], latest |-> [k \in 0..3 |-> -1],
   last |-> [op |-> "init", key |-> 0, status |-> 0, val |-> -1]]

\* no operator constructed yet
NoOp ==
  [pc |-> "none", access_mode |-> "onlyTag", filter |-> FALSE, batches |-> <<>>,
   is_init |-> FALSE, init_code |-> "EE_ERROR", tag_index_once |-> TRUE, pos |-> 0,
   last |-> [call |-> "none", code |-> "none", rows |-> 0],
   chunks |-> 0, failed |-> FALSE]

\* no row accumulated yet: no candidate
NoAccum ==
  [f |-> [first |-> NoCand, first_row |-> NoCand],
   l |-> [first |-> NoCand, first_row |-> NoCand],
   prev |-> [first |-> NoCand, first_row |-> NoCand],
   row |-> [ts |-> INVALID_TS, null |-> TRUE, val |-> 0], call |-> "none"]

\* no tag row, no entity allocated, mutex_ free, every caller outside PutData
NoAlloc ==
  [tag_bt |-> <<>>, allocated |-> <<>>, mutex_ |-> 0, faults |-> 0,
   at |-> [t \in {1, 2} |-> [pc |-> "idle", tag |-> 1, flag |-> "DATA_AND_TAG",
                              entityid |-> 0, fresh |-> FALSE, status |-> "none"]]]

\* the table as created: the timestamp column (id 1) only, in the root
\* table and in both entity groups; no DDL call made
NoDdl ==
  [schema |-> <<1>>, eg |-> [g \in {1, 2} |-> {1}],
   last |-> [call |-> "none", col |-> 1, attr |-> "metric", existed |-> TRUE,
             status |-> "SUCCESS"]]

\* putDataColumnar not entered, every partition valid
NoLoop ==
  [pc |-> "idle", payload |-> <<>>, batch_start |-> 0, last_p_time |-> 0,
   valid |-> [p \in PartitionTimes |-> TRUE], errcode |-> "OK", all_success |-> TRUE,
   status |-> "SUCCESS"]

\* a created table without entity groups: entity_bt_ loaded, entity_groups_
\* empty (instance 0 = no entry), entity_groups_mtx_ free, no call made
NoTable ==
  [entity_bt_ |-> TRUE, entity_groups_ |-> [g \in {1, 2} |-> 0], dirs |-> {},
   writer |-> 0, insts |-> 0,
   drop |-> [todo |-> {}, range_groups |-> {}, s |-> "SUCCESS"],
   th |-> [t \in {1, 2} |-> [pc |-> "idle", call |-> "none", g |-> 1, inst |-> 0,
                              status |-> "none"]]]

\* the tag table open and valid, nobody referencing it, no call made
NoTag ==
  [tag_bt_ |-> "valid", ref |-> 0, faults |-> 0,
   last |-> [call |-> "none", before |-> 0, got |-> TRUE, op_ok |-> TRUE,
             status |-> "SUCCESS"]]

\* no distinct operator constructed yet
NoDistinct ==
  [pc |-> "none", offset_ |-> 0, limit_ |-> 0, cur_offset_ |-> 0, examined_rows_ |-> 0,
   seen |-> {}, emitted |-> <<>>, skipped |-> <<>>, code |-> "EE_ERROR", stop |-> FALSE,
   calls |-> 0]

InitState ==
  /\ store = [p \in PartitionTimes |-> <<>>]
  /\ wr = IdleWr
  /\ written = <<>>
  /\ dedup_seen = FALSE
  /\ ndel = 0
  /\ last_del = NoDel
  /\ iter = NoIter
  /\ ret = NoRet
  /\ mtr = [m \in Mtrs |-> "none"]
  /\ alive = TRUE
  /\ drop_mutex = [readers |-> 0, writer |-> FALSE]
  /\ th = [t \in Threads |-> "idle"]
  /\ iters_live = 0
  /\ dropped = FALSE
  /\ restarts = 0
  /\ rd = NoRd
  /\ wal = <<>>
  /\ pcache = NoCache
  /\ api = NoApi
  /\ heap = NoHeap
  /\ hidx = NoIndex
  /\ op = NoOp
  /\ fl = NoAccum
  /\ ea = NoAlloc
  /\ ddl = NoDdl
  /\ lp = NoLoop
  /\ tab = NoTable
  /\ tg = NoTag
  /\ ds = NoDistinct

InitCommon ==
  /\ InitState
  /\ col_type = "INT32"

InitStore ==
  /\ InitCommon
  /\ block_rows \in 2..MaxBlockRows

NextStore ==
  \/ \E e \in Entities, payload \in StorePayloads, rule \in DedupRules :
        PutData(e, payload, rule)
  \/ PutSlice
  \/ PutAfterProcess

SpecStore == InitStore /\ [][NextStore]_vars

(***************************************************************************)
(* The OVERRIDE specification: every put under the default dedup rule      *)
(***************************************************************************)
NextOverride ==
  \/ \E e \in Entities, payload \in StorePayloads : PutData(e, payload, "OVERRIDE")
  \/ PutSlice
  \/ PutAfterProcess

SpecOverride == InitStore /\ [][NextOverride]_vars

(***************************************************************************)
(* The REJECT specification: puts under the rules that drop colliding rows *)
(***************************************************************************)
RejectRules == {"REJECT", "DISCARD"}

NextReject ==
  \/ \E e \in Entities, payload \in StorePayloads, rule \in RejectRules :
        PutData(e, payload, rule)
  \/ PutSlice
  \/ PutAfterProcess

SpecReject == InitStore /\ [][NextReject]_vars

(***************************************************************************)
(* The failure specification: puts under OVERRIDE and REJECT whose slices  *)
(* may fail, and deletes                                                   *)
(***************************************************************************)
FaultRules == {"OVERRIDE", "REJECT"}
FaultPayloads == PayloadsOf({r \in RowsOf(TsValues, {0}) : r.val = 1})

NextFault ==
  \/ \E e \in Entities, payload \in FaultPayloads, rule \in FaultRules :
        PutData(e, payload, rule)
  \/ PutSlice
  \/ PutSliceFault
  \/ PutAfterProcess
  \/ \E e \in Entities : DeleteData(e, AllSpan)

InitFault ==
  /\ InitCommon
  /\ block_rows = 2

SpecFault == InitFault /\ [][NextFault]_vars

(***************************************************************************)
(* The reader/writer specification: one writer under OVERRIDE, whose       *)
(* slices may fail, and one iterator of the same entity, interleaved       *)
(* statement by statement                                                  *)
(***************************************************************************)
RaceEntity == CHOOSE e \in Entities : \A f \in Entities : e <= f
RacePayloads == PayloadsOf({r \in RowsOf(TsValues \ {2000}, {0}) : r.val = 1})

NextRace ==
  \/ \E payload \in RacePayloads : PutData(RaceEntity, payload, "OVERRIDE")
  \/ PutSlice
  \/ PutSliceFault
  \/ PutAfterProcess
  \/ ReaderOpen(RaceEntity)
  \/ ReaderTop
  \/ ReaderFastLoop
  \/ ReaderFastCheck
  \/ ReaderFastCount
  \/ ReaderSlow
  \/ ReaderAdvance

InitRace ==
  /\ InitCommon
  /\ block_rows = 2

SpecRace == InitRace /\ [][NextRace]_vars

(***************************************************************************)
(* The SUM specification: puts on a metric column of each numeric type     *)
(***************************************************************************)
SumPayloads == PayloadsOf({r \in RowsOf(TsValues, {0}) : r.val # 1})

InitSum ==
  /\ InitState
  /\ col_type \in ColTypes
  /\ block_rows = 2

NextSum ==
  \/ \E e \in Entities, payload \in SumPayloads, rule \in DedupRules :
        PutData(e, payload, rule)
  \/ PutSlice
  \/ PutAfterProcess

SpecSum == InitSum /\ [][NextSum]_vars

(***************************************************************************)
(* The block aggregate specification: puts under OVERRIDE of values that   *)
(* can overflow the narrow sum, slices that may fail, and deletes          *)
(***************************************************************************)
BlockTs == {t \in TsValues : PartitionTime(t \div 1000) = PartitionTime(SetMin(TsValues) \div 1000)}
BlockPayloads == PayloadsOf(RowsOf(BlockTs, {0}))
BlockSpans == {AllSpan, <<[begin |-> 1000, end |-> 1000]>>}

NextBlock ==
  \/ \E payload \in BlockPayloads : PutData(RaceEntity, payload, "OVERRIDE")
  \/ PutSlice
  \/ PutSliceFault
  \/ PutAfterProcess
  \/ \E spans \in BlockSpans : DeleteData(RaceEntity, spans)

SpecBlock == InitFault /\ [][NextBlock]_vars

(***************************************************************************)
(* The write-ahead specification: puts of payloads whose LSN slot the      *)
(* caller left empty or filled, and deletes                                *)
(***************************************************************************)
PayloadLsns == {0, 7}
WalPayloads == PayloadsOf({r \in RowsOf(TsValues, {0}) : r.val = 1})

NextWal ==
  \/ \E e \in Entities, payload \in WalPayloads, pl_lsn \in PayloadLsns :
        PutDataLsn(e, payload, "OVERRIDE", pl_lsn)
  \/ PutSlice
  \/ PutAfterProcess
  \/ \E e \in Entities, spans \in SpanChoices : DeleteData(e, spans)

SpecWal == InitStore /\ [][NextWal]_vars

(***************************************************************************)
(* The tombstone specification: puts of plain rows, and deletes            *)
(***************************************************************************)
DeletePayloads == PayloadsOf({r \in RowsOf(TsValues, {0}) : r.val = 1})

NextDelete ==
  \/ \E e \in Entities, payload \in DeletePayloads, rule \in DedupRules :
        PutData(e, payload, rule)
  \/ PutSlice
  \/ PutAfterProcess
  \/ \E e \in Entities, spans \in SpanChoices : DeleteData(e, spans)

SpecDelete == InitStore /\ [][NextDelete]_vars

(***************************************************************************)
(* The partition cache: the references the entity-group's calls take on    *)
(* partition tables (SubEntityGroupManager::GetPartitionTable(s) and       *)
(* ReleasePartitionTable) and the eviction of unreferenced partitions.     *)
(* pcache = [ref, open, it_live, p_bts, put_pc, info, faults]: reference   *)
(* count and open flag per partition, the live iterator's p_bts_, the put  *)
(* in progress ("idle" | "loop" | "after") with the partitions recorded in *)
(* after_process_info, and the number of failed partition calls so far.    *)
(***************************************************************************)
MaxCacheFaults == 1

CacheQuiet ==
  UNCHANGED <<store, block_rows, wr, written, dedup_seen, ndel, last_del, iter, ret,
              mtr, alive, drop_mutex, th, iters_live, dropped, restarts, col_type, rd,
              wal, api, heap, hidx, op, fl, ea, ddl, lp, tab, tg, ds>>

\* SubEntityGroupManager::GetPartitionTable(s): one reference more on each
\* partition of ps, which is opened when it was not
AcquirePartitions(c, ps) ==
  [c EXCEPT !.ref = [p \in PartitionTimes |-> IF p \in ps THEN @[p] + 1 ELSE @[p]],
            !.open = [p \in PartitionTimes |-> @[p] \/ p \in ps]]

\* SubEntityGroupManager::ReleasePartitionTable on each partition of ps
ReleasePartitions(c, ps) ==
  [c EXCEPT !.ref = [p \in PartitionTimes |-> IF p \in ps THEN @[p] - 1 ELSE @[p]]]

\* the partition loop of TsEntityGroup::DeleteData releases every partition
\* once, at the end of its iteration or at its head once a delete failed
DeleteDataReleases(ps, failed) == ps

\* the res < 0 branch of the loop releases the failing partition as well,
\* before the release at the end of its iteration
DeleteDataReleasesTwice(ps, failed) == ps \cap failed

\* TsEntityGroup::GetIterator: take the partitions of the span, release
\* those without data of the entities, hand the others to the iterator
CacheGetIterator(ps, has_data) ==
  /\ ~pcache.it_live
  /\ has_data \subseteq ps
  /\ pcache' = [ReleasePartitions(AcquirePartitions(pcache, ps), ps \ has_data)
                  EXCEPT !.it_live = TRUE, !.p_bts = has_data]
  /\ CacheQuiet

\* TsIterator::~TsIterator: release every partition of p_bts_
CacheIteratorDestroy ==
  /\ pcache.it_live
  /\ pcache' = [ReleasePartitions(pcache, pcache.p_bts)
                  EXCEPT !.it_live = FALSE, !.p_bts = {}]
  /\ CacheQuiet

\* putDataColumnar is entered
CachePutEnter ==
  /\ pcache.put_pc = "idle"
  /\ pcache' = [pcache EXCEPT !.put_pc = "loop"]
  /\ CacheQuiet

\* one iteration of the slice loop of putDataColumnar on partition p:
\* GetPartitionTable, push_back_payload, recordPutAfterProInfo (which gives
\* the reference back when the partition is already recorded); on an
\* invalid partition the iteration continues right after GetPartitionTable
CachePutSlice(p, fault) ==
  /\ pcache.put_pc = "loop"
  /\ fault # "none" => pcache.faults < MaxCacheFaults
  /\ pcache' =
       IF fault = "GetPartitionTable"
       THEN [pcache EXCEPT !.put_pc = "after", !.faults = @ + 1]
       ELSE IF fault = "invalid"
       THEN [AcquirePartitions(pcache, {p}) EXCEPT !.faults = @ + 1]
       ELSE LET c1 == AcquirePartitions(pcache, {p})
                c2 == IF p \in pcache.info THEN ReleasePartitions(c1, {p}) ELSE c1
            IN [c2 EXCEPT !.info = @ \cup {p},
                          !.put_pc = IF fault = "none" THEN "loop" ELSE "after",
                          !.faults = IF fault = "none" THEN @ ELSE @ + 1]
  /\ CacheQuiet

\* the slice loop of putDataColumnar ends
CachePutLoopEnd ==
  /\ pcache.put_pc = "loop"
  /\ pcache' = [pcache EXCEPT !.put_pc = "after"]
  /\ CacheQuiet

\* TsEntityGroup::putAfterProcess: publish and release every partition
\* recorded
CachePutAfterProcess ==
  /\ pcache.put_pc = "after"
  /\ pcache' = [ReleasePartitions(pcache, pcache.info)
                  EXCEPT !.put_pc = "idle", !.info = {}]
  /\ CacheQuiet

\* TsEntityGroup::DeleteData over the partitions ps, the delete failing in
\* the partitions of failed (at most one: the loop skips the deletes after
\* the first failure)
CacheDeleteData(ps, failed) ==
  /\ ps # {}
  /\ failed \subseteq ps
  /\ Cardinality(failed) <= 1
  /\ failed # {} => pcache.faults < MaxCacheFaults
  /\ pcache' = [ReleasePartitions(
                    ReleasePartitions(AcquirePartitions(pcache, ps),
                                      DeleteDataReleases(ps, failed)),
                    DeleteDataReleasesTwice(ps, failed))
                  EXCEPT !.faults = IF failed = {} THEN @ ELSE @ + 1]
  /\ CacheQuiet

\* the cache closes a partition nobody references
CacheEvict(p) ==
  /\ pcache.open[p]
  /\ pcache.ref[p] = 0
  /\ pcache' = [pcache EXCEPT !.open[p] = FALSE]
  /\ CacheQuiet

CacheFaults == {"none", "GetPartitionTable", "push_back_payload", "invalid"}

NextCache ==
  \/ \E ps \in SUBSET PartitionTimes, has_data \in SUBSET PartitionTimes :
        CacheGetIterator(ps, has_data)
  \/ CacheIteratorDestroy
  \/ CachePutEnter
  \/ \E p \in PartitionTimes, fault \in CacheFaults : CachePutSlice(p, fault)
  \/ CachePutLoopEnd
  \/ CachePutAfterProcess
  \/ \E ps \in SUBSET PartitionTimes, failed \in SUBSET PartitionTimes :
        CacheDeleteData(ps, failed)
  \/ \E p \in PartitionTimes : CacheEvict(p)

SpecCache == InitFault /\ [][NextCache]_vars

(***************************************************************************)
(* Calls addressed to an entity or an entity group by name: what they      *)
(* return (KStatus is SUCCESS or FAIL) and log when the target is absent.  *)
(* api = [tags, groups, last]: the entities of each group's tag table, the *)
(* range groups of the table, the last call [call, found, status, log].    *)
(***************************************************************************)
RangeGroups == {1, 2}

ApiQuiet ==
  UNCHANGED <<store, block_rows, wr, written, dedup_seen, ndel, last_del, iter, ret,
              mtr, alive, drop_mutex, th, iters_live, dropped, restarts, col_type, rd,
              wal, pcache, heap, hidx, op, fl, ea, ddl, lp, tab, tg, ds>>

\* TsTable::CreateEntityGroup: the range group exists from now on
CreateEntityGroup(g) ==
  /\ g \notin api.groups
  /\ api' = [api EXCEPT !.groups = @ \cup {g},
                        !.last = [call |-> "CreateEntityGroup", found |-> TRUE,
                                  status |-> "SUCCESS", log |-> "none"]]
  /\ ApiQuiet

\* TsTable::PutData on range group g for entity e: FAIL with an error log
\* when the group is unknown; otherwise the entity group's PutData, which
\* allocates the entity in its tag table
TablePutData(g, e) ==
  /\ api' = IF g \notin api.groups
            THEN [api EXCEPT !.last = [call |-> "PutData", found |-> FALSE,
                                       status |-> "FAIL", log |-> "ERROR"]]
            ELSE [api EXCEPT !.tags[g] = @ \cup {e},
                             !.last = [call |-> "PutData", found |-> TRUE,
                                       status |-> "SUCCESS", log |-> "none"]]
  /\ ApiQuiet

\* TsEntityGroup::DeleteData of group g for the primary tag of e: SUCCESS
\* with a warning when getEntityIdGroupId does not find the entity
EntityGroupDeleteDataStatus(g, e) ==
  [call |-> "DeleteData", found |-> e \in api.tags[g], status |-> "SUCCESS",
   log |-> IF e \in api.tags[g] THEN "none" ELSE "WARN"]

\* TsTable::DeleteData on range group g: FAIL with an error log when
\* GetEntityGroup does not find the group, else the entity group's status
TableDeleteData(g, e) ==
  /\ api' = [api EXCEPT !.last =
                IF g \notin api.groups
                THEN [call |-> "DeleteData", found |-> FALSE, status |-> "FAIL",
                      log |-> "ERROR"]
                ELSE EntityGroupDeleteDataStatus(g, e)]
  /\ ApiQuiet

\* TsEntityGroup::DeleteEntity of group g for the primary tag of e: FAIL
\* when getEntityIdGroupId does not find the entity, else the tag is deleted
DeleteEntity(g, e) ==
  /\ g \in api.groups
  /\ api' = IF e \notin api.tags[g]
            THEN [api EXCEPT !.last = [call |-> "DeleteEntity", found |-> FALSE,
                                       status |-> "FAIL", log |-> "none"]]
            ELSE [api EXCEPT !.tags[g] = @ \ {e},
                             !.last = [call |-> "DeleteEntity", found |-> TRUE,
                                       status |-> "SUCCESS", log |-> "none"]]
  /\ ApiQuiet

NextApi ==
  \/ \E g \in RangeGroups : CreateEntityGroup(g)
  \/ \E g \in RangeGroups, e \in Entities : TablePutData(g, e)
  \/ \E g \in RangeGroups, e \in Entities : TableDeleteData(g, e)
  \/ \E g \in RangeGroups, e \in Entities : DeleteEntity(g, e)

SpecApi == InitFault /\ [][NextApi]_vars

(***************************************************************************)
(* The string heap (MMapStringFile) and its readers.  heap.base is the     *)
(* generation of the mapping: a remap moves the base address, so a pointer *)
(* computed from generation g is valid only while heap.base = g.           *)
(* heap.writer / heap.readers are the holders of m_strfile_rwlock_;        *)
(* heap.rt[t] is reader thread t: its position, the accessor it runs and   *)
(* the generation its pointer was computed from (-1: no pointer);          *)
(* heap.deref records the last dereference: by whom, on which path,        *)
(* whether the shared lock was held and whether the pointer was current.   *)
(***************************************************************************)
HeapReaders == {1, 2}

MaxRemaps == 2

HeapPaths == {"varColumnAddr", "getVarValueAddr"}

HeapQuiet ==
  UNCHANGED <<store, block_rows, wr, written, dedup_seen, ndel, last_del, iter, ret,
              mtr, alive, drop_mutex, th, iters_live, dropped, restarts, col_type, rd,
              wal, pcache, api, hidx, op, fl, ea, ddl, lp, tab, tg, ds>>

\* MMapStringFile::rdLock at the head of an accessor: RW_LATCH_S_LOCK waits
\* while the exclusive lock is held
rdLock(t, path) ==
  /\ heap.rt[t].pc = "idle"
  /\ ~heap.writer
  /\ heap' = [heap EXCEPT !.readers = @ \cup {t},
                          !.rt[t] = [pc |-> "locked", path |-> path, ptr |-> -1]]
  /\ HeapQuiet

\* MMapStringFile::getStringAddr(offset): the address is the current base
\* of the mapping plus the offset
getStringAddr(t) ==
  /\ heap.rt[t].pc = "locked"
  /\ heap' = [heap EXCEPT !.rt[t].pc = "addr", !.rt[t].ptr = heap.base]
  /\ HeapQuiet

\* what a dereference of t's pointer is: under the shared lock or not, of a
\* pointer into the current mapping or into one that was moved
Dereference(h, t) ==
  [by |-> t, path |-> h.rt[t].path, locked |-> t \in h.readers,
   fresh |-> h.rt[t].ptr = h.base]

\* MMapSegmentTable::varColumnAddr after getStringAddr: reads the length
\* prefix and copies the value out (memcpy), then unLock, returns the copy
varColumnAddr(t) ==
  /\ heap.rt[t].pc = "addr"
  /\ heap.rt[t].path = "varColumnAddr"
  /\ heap' = [heap EXCEPT !.deref = Dereference(heap, t),
                          !.readers = @ \ {t},
                          !.rt[t] = [pc |-> "idle", path |-> "none", ptr |-> -1]]
  /\ HeapQuiet

\* TagColumn::getVarValueAddr after getStringAddr: unLock, then the raw
\* address is returned to the caller
getVarValueAddr(t) ==
  /\ heap.rt[t].pc = "addr"
  /\ heap.rt[t].path = "getVarValueAddr"
  /\ heap' = [heap EXCEPT !.readers = @ \ {t}, !.rt[t].pc = "returned"]
  /\ HeapQuiet

\* the caller of getColumnValueAddr reads the value at the address it got
UseVarValueAddr(t) ==
  /\ heap.rt[t].pc = "returned"
  /\ heap' = [heap EXCEPT !.deref = Dereference(heap, t),
                          !.rt[t] = [pc |-> "idle", path |-> "none", ptr |-> -1]]
  /\ HeapQuiet

\* MMapStringFile::wrLock: RW_LATCH_X_LOCK waits for every holder
wrLock ==
  /\ ~heap.writer
  /\ heap.readers = {}
  /\ heap.base < MaxRemaps
  /\ heap' = [heap EXCEPT !.writer = TRUE]
  /\ HeapQuiet

\* the file is re-mapped larger under the exclusive lock: the base moves
Remap ==
  /\ heap.writer
  /\ heap.base < MaxRemaps
  /\ heap' = [heap EXCEPT !.base = @ + 1]
  /\ HeapQuiet

\* MMapStringFile::unLock of the exclusive holder
wrUnLock ==
  /\ heap.writer
  /\ heap' = [heap EXCEPT !.writer = FALSE]
  /\ HeapQuiet

NextHeap ==
  \/ \E t \in HeapReaders, path \in HeapPaths : rdLock(t, path)
  \/ \E t \in HeapReaders : getStringAddr(t)
  \/ \E t \in HeapReaders : varColumnAddr(t)
  \/ \E t \in HeapReaders : getVarValueAddr(t)
  \/ \E t \in HeapReaders : UseVarValueAddr(t)
  \/ wrLock
  \/ Remap
  \/ wrUnLock

SpecHeap == InitFault /\ [][NextHeap]_vars

(***************************************************************************)
(* The hash index (RelHashIndex).  hidx.n is the bucket count and          *)
(* hidx.buckets[b] the chain of bucket b, a sequence of <<key, value>>;    *)
(* hidx.latest[k] is the history of the calls: the value of the latest put *)
(* of k that no delete followed, -1 when there is none; hidx.last is the   *)
(* last call and what it returned.                                         *)
(***************************************************************************)
IndexKeys == 0..3

IndexVals == {1, 2}

BucketCounts == {2, 3, 4}

NotFound == -1

IndexQuiet ==
  UNCHANGED <<store, block_rows, wr, written, dedup_seen, ndel, last_del, iter, ret,
              mtr, alive, drop_mutex, th, iters_live, dropped, restarts, col_type, rd,
              wal, pcache, api, heap, op, fl, ea, ddl, lp, tab, tg, ds>>

\* the hash of the key bytes
HashKey(k) == (5 * k + 3) % 8

\* the bucket of a key under n buckets
BucketOf(k, n) == HashKey(k) % n

\* the positions of key k in a chain
ChainHits(chain, k) == {i \in DOMAIN chain : chain[i][1] = k}

\* delete within a chain: the entry of the key is unlinked
ChainDelete(chain, k) == SelectSeq(chain, LAMBDA en : en[1] # k)

\* put within a chain: the entry of the key is overwritten, a new key is
\* linked at the head of the chain
ChainPut(chain, k, v) ==
  IF ChainHits(chain, k) = {}
  THEN <<(<<k, v>>)>> \o chain
  ELSE [i \in DOMAIN chain |-> IF chain[i][1] = k THEN <<k, v>> ELSE chain[i]]

\* get: walks the chain of the key's bucket; -1 when the key is not in it
get(h, k) ==
  LET chain == h.buckets[BucketOf(k, h.n)]
      hits == ChainHits(chain, k)
  IN  IF hits = {} THEN NotFound
      ELSE chain[CHOOSE i \in hits : \A j \in hits : i <= j][2]

put(h, k, v) == [h EXCEPT !.buckets[BucketOf(k, h.n)] = ChainPut(@, k, v)]

delete_data(h, k) == [h EXCEPT !.buckets[BucketOf(k, h.n)] = ChainDelete(@, k)]

\* every entry of the index, bucket after bucket
RECURSIVE EntriesFrom(_, _)
EntriesFrom(h, b) ==
  IF b >= h.n THEN <<>> ELSE h.buckets[b] \o EntriesFrom(h, b + 1)

\* rehash to n2 buckets: only the head of each old chain is moved
rehashHeads(h, n2) ==
  [h EXCEPT !.n = n2,
            !.buckets = [b \in DOMAIN h.buckets |->
                           IF b >= n2 THEN <<>>
                           ELSE SelectSeq(EntriesFrom(h, 0),
                                  LAMBDA en : /\ BucketOf(en[1], n2) = b
                                              /\ h.buckets[BucketOf(en[1], h.n)][1] = en)]]

\* rehash to n2 buckets: every entry is linked into the bucket its key
\* hashes to under the new count
rehash(h, n2) ==
  [h EXCEPT !.n = n2,
            !.buckets = [b \in DOMAIN h.buckets |->
                           IF b >= n2 THEN <<>>
                           ELSE SelectSeq(EntriesFrom(h, 0),
                                  LAMBDA en : BucketOf(en[1], n2) = b)]]

\* RelHashIndex::put(key, len, row_index) returns 0
IndexPut(k, v) ==
  /\ hidx' = [put(hidx, k, v) EXCEPT
                !.latest[k] = v,
                !.last = [op |-> "put", key |-> k, status |-> 0, val |-> v]]
  /\ IndexQuiet

\* RelHashIndex::get(key, len, row_index): 0 and the row index, or -1
IndexGet(k) ==
  /\ hidx' = [hidx EXCEPT
                !.last = [op |-> "get", key |-> k,
                          status |-> IF get(hidx, k) = NotFound THEN NotFound ELSE 0,
                          val |-> get(hidx, k)]]
  /\ IndexQuiet

\* RelHashIndex::delete_data(key, len)
IndexDelete(k) ==
  /\ hidx' = [delete_data(hidx, k) EXCEPT
                !.latest[k] = NotFound,
                !.last = [op |-> "delete", key |-> k,
                          status |-> IF get(hidx, k) = NotFound THEN NotFound ELSE 0,
                          val |-> NotFound]]
  /\ IndexQuiet

\* RelHashIndex::publicRehash(new_bucket_count)
IndexRehash(n2) ==
  /\ n2 # hidx.n
  /\ hidx' = [rehash(hidx, n2) EXCEPT
                !.last = [op |-> "rehash", key |-> 0, status |-> 0, val |-> NotFound]]
  /\ IndexQuiet

NextIndex ==
  \/ \E k \in IndexKeys, v \in IndexVals : IndexPut(k, v)
  \/ \E k \in IndexKeys : IndexGet(k)
  \/ \E k \in IndexKeys : IndexDelete(k)
  \/ \E n2 \in BucketCounts : IndexRehash(n2)

SpecIndex == InitFault /\ [][NextIndex]_vars

(***************************************************************************)
(* The operator call protocol, on TagScanOperator.  op.batches is what the *)
(* tag iterator of the table returns, batch after batch, as                *)
(* [count, effect]: the rows of the batch and the rows the tag filter      *)
(* keeps; op.pos is the number of batches the iterator has handed out.     *)
(* op.last is the last call with the code it returned and the rows of the  *)
(* chunk it produced; op.chunks counts the chunks produced; op.failed      *)
(* records that a storage call failed.  The driver is the one of the       *)
(* tests: Init, Next while it returns EE_OK, Close.                        *)
(***************************************************************************)
MaxBatches == 2

MaxBatchRows == 2

AccessModes == {"tagIndex", "onlyTag"}

Batches == [count : 1..MaxBatchRows, effect : 0..MaxBatchRows]

BatchSeqs ==
  {bs \in UNION {[1..n -> Batches] : n \in 0..MaxBatches} :
     \A i \in DOMAIN bs : bs[i].effect <= bs[i].count}

NextFaults == {"none", "first", "later"}

OpQuiet ==
  UNCHANGED <<store, block_rows, wr, written, dedup_seen, ndel, last_del, iter, ret,
              mtr, alive, drop_mutex, th, iters_live, dropped, restarts, col_type, rd,
              wal, pcache, api, heap, hidx, fl, ea, ddl, lp, tab, tg, ds>>

\* the rows of batch i that reach the chunk: the rows the filter keeps
\* (effect_count_), all rows without a filter
BatchRows(o, i) == IF o.filter THEN o.batches[i].effect ELSE o.batches[i].count

\* StorageHandler::TagNext returning EE_OK whenever the iterator succeeds
TagNextNoEnd(o, fault) ==
  [code |-> "EE_OK", pos |-> o.pos, rows |-> 0, failed |-> FALSE]

\* StorageHandler::TagNext: calls tag_iterator->Next until a batch has rows
\* after the filter or the iterator returns no rows (EE_END_OF_RECORD); a
\* failed first call leaves EE_ERROR, a failed later call leaves the EE_OK of
\* the call before it
TagNext(o, fault) ==
  LET stops == {i \in (o.pos + 1)..Len(o.batches) : BatchRows(o, i) > 0}
      stop == IF stops = {} THEN Len(o.batches) + 1
              ELSE CHOOSE i \in stops : \A j \in stops : i <= j
  IN  IF fault = "first"
      THEN [code |-> "EE_ERROR", pos |-> o.pos, rows |-> 0, failed |-> TRUE]
      ELSE IF fault = "later" /\ stop - o.pos >= 2
      THEN [code |-> "EE_OK", pos |-> o.pos + 1, rows |-> 0, failed |-> TRUE]
      ELSE IF stop > Len(o.batches)
      THEN [code |-> "EE_END_OF_RECORD", pos |-> Len(o.batches), rows |-> 0,
            failed |-> FALSE]
      ELSE [code |-> "EE_OK", pos |-> stop, rows |-> BatchRows(o, stop),
            failed |-> FALSE]

\* StorageHandler::GetEntityIdList: the entities of the primary tags in one
\* batch; EE_END_OF_RECORD when none is found or the filter keeps none
GetEntityIdList(o, fault) ==
  IF fault # "none"
  THEN [code |-> "EE_ERROR", pos |-> o.pos, rows |-> 0, failed |-> TRUE]
  ELSE IF o.batches = <<>> \/ BatchRows(o, 1) = 0
  THEN [code |-> "EE_END_OF_RECORD", pos |-> o.pos, rows |-> 0, failed |-> FALSE]
  ELSE [code |-> "EE_OK", pos |-> 1, rows |-> BatchRows(o, 1), failed |-> FALSE]

\* the body of TagScanOperator::Next: the code starts as EE_END_OF_RECORD;
\* in the tag index modes the entity list is fetched once
TagScanNext(o, fault) ==
  IF o.access_mode = "tagIndex"
  THEN IF ~o.tag_index_once
       THEN [code |-> "EE_END_OF_RECORD", pos |-> o.pos, rows |-> 0, failed |-> FALSE]
       ELSE GetEntityIdList(o, fault)
  ELSE TagNext(o, fault)

\* the operator is constructed over a table: its access mode, its filter
\* and the tag rows of the table
NewOperator(mode, filter, bs) ==
  /\ op.pc = "none"
  /\ op' = [op EXCEPT !.pc = "new", !.access_mode = mode, !.filter = filter,
                      !.batches = bs]
  /\ OpQuiet

\* TagScanOperator::Init: runs once (is_init_), later calls return
\* init_code_; NewTagIterator fails when the table cannot open the iterator
OpInit(ok) ==
  /\ op.pc = "new"
  /\ op.last.call \in {"none", "Init"}
  /\ op' = IF op.is_init
           THEN [op EXCEPT !.last = [call |-> "Init", code |-> op.init_code, rows |-> 0]]
           ELSE LET code == IF ok \/ op.access_mode = "tagIndex"
                            THEN "EE_OK" ELSE "EE_ERROR"
                IN  [op EXCEPT !.is_init = TRUE, !.init_code = code,
                               !.failed = (code # "EE_OK"),
                               !.last = [call |-> "Init", code |-> code, rows |-> 0]]
  /\ OpQuiet

\* TagScanOperator::Next(ctx, chunk), called while the calls return EE_OK
OpNext(fault) ==
  /\ op.pc = "new"
  /\ op.last.call \in {"Init", "Next"}
  /\ op.last.code = "EE_OK"
  /\ LET r == TagScanNext(op, fault)
     IN  op' = [op EXCEPT !.tag_index_once = IF op.access_mode = "tagIndex"
                                             THEN FALSE ELSE @,
                         !.pos = r.pos,
                         !.failed = @ \/ r.failed,
                         !.chunks = @ + (IF r.rows > 0 THEN 1 ELSE 0),
                         !.last = [call |-> "Next", code |-> r.code, rows |-> r.rows]]
  /\ OpQuiet

\* TagScanOperator::Close: Reset, then SUCCESS
OpClose ==
  /\ op.pc = "new"
  /\ op.last.call \in {"Init", "Next"}
  /\ op.last.code # "EE_OK"
  /\ op' = [op EXCEPT !.pc = "closed", !.is_init = FALSE, !.tag_index_once = TRUE,
                      !.last = [call |-> "Close", code |-> "SUCCESS", rows |-> 0]]
  /\ OpQuiet

NextOp ==
  \/ \E mode \in AccessModes, filter \in BOOLEAN, bs \in BatchSeqs :
       NewOperator(mode, filter, bs)
  \/ \E ok \in BOOLEAN : OpInit(ok)
  \/ \E fault \in NextFaults : OpNext(fault)
  \/ OpClose

\* the driver keeps calling: Init after construction, Next while the calls
\* return EE_OK, Close after that
SpecOp ==
  /\ InitFault
  /\ [][NextOp]_vars
  /\ WF_vars(\E ok \in BOOLEAN : OpInit(ok))
  /\ WF_vars(\E fault \in NextFaults : OpNext(fault))
  /\ WF_vars(OpClose)

(***************************************************************************)
(* The accumulation of the first/last candidates, row by row.  fl.f holds  *)
(* the first and first_row candidates, fl.l the last and last_row ones     *)
(* (in the same fields); fl.row is the row of the last update, fl.prev the *)
(* first candidates before it, fl.call the function that made it.          *)
(***************************************************************************)
AccumRows == {[ts |-> t, null |-> c.null, val |-> c.val] : t \in TsValues, c \in Cells}

AccumQuiet ==
  UNCHANGED <<store, block_rows, wr, written, dedup_seen, ndel, last_del, iter, ret,
              mtr, alive, drop_mutex, th, iters_live, dropped, restarts, col_type, rd,
              wal, pcache, api, heap, hidx, op, ea, ddl, lp, tab, tg, ds>>

\* a live in-span row is visited by findFirstData: updateFirstCols
AccumulateFirst(r) ==
  /\ fl' = [fl EXCEPT !.f = [first |-> updateFirstCols(fl.f, r).first,
                             first_row |-> updateFirstCols(fl.f, r).first_row],
                      !.prev = fl.f, !.row = r, !.call = "updateFirstCols"]
  /\ AccumQuiet

\* a live in-span row is visited by findFirstLastData: updateFirstLastCols
AccumulateFirstLast(r) ==
  /\ fl' = [fl EXCEPT !.f = [first |-> updateFirstLastCols(fl, r).f.first,
                             first_row |-> updateFirstLastCols(fl, r).f.first_row],
                      !.l = [first |-> updateFirstLastCols(fl, r).l.first,
                             first_row |-> updateFirstLastCols(fl, r).l.first_row],
                      !.prev = fl.f, !.row = r, !.call = "updateFirstLastCols"]
  /\ AccumQuiet

NextAccum ==
  \/ \E r \in AccumRows : AccumulateFirst(r)
  \/ \E r \in AccumRows : AccumulateFirstLast(r)

SpecAccum == InitFault /\ [][NextAccum]_vars

(***************************************************************************)
(* TsEntityGroup::allocateEntityGroupId as PutData calls it, statement by  *)
(* statement for each calling thread.  ea = [tag_bt, allocated, mutex_,    *)
(* faults, at]: the rows of the tag table (primary tag, entity), the       *)
(* primary tag each entity of the sub-group manager was allocated for (the *)
(* entity id is the index), the thread holding mutex_ (0 = free), the      *)
(* number of failed calls so far, and each caller's position and locals.   *)
(***************************************************************************)
AllocThreads == {1, 2}
PrimaryTags == {1, 2}
PayloadFlags == {"DATA_AND_TAG", "DATA_ONLY", "TAG_ONLY"}
MaxAllocated == 3
MaxAllocFaults == 1

AllocQuiet ==
  UNCHANGED <<store, block_rows, wr, written, dedup_seen, ndel, last_del, iter, ret,
              mtr, alive, drop_mutex, th, iters_live, dropped, restarts, col_type, rd,
              wal, pcache, api, heap, hidx, op, fl, ddl, lp, tab, tg, ds>>

\* tag_bt_->getEntityIdGroupId: the entity of the row of this primary tag, 0
\* when there is no such row
getEntityIdGroupId(tag_bt, tag) ==
  IF \E i \in 1..Len(tag_bt) : tag_bt[i].tag = tag
  THEN tag_bt[CHOOSE i \in 1..Len(tag_bt) : tag_bt[i].tag = tag].entity
  ELSE 0

\* a putTagData that inserts the tag row whatever the payload's flag is
putTagDataAlways(tag_bt, flag, tag, entityid) ==
  Append(tag_bt, [tag |-> tag, entity |-> entityid])

\* TsEntityGroup::putTagData: the tag row is inserted only when the payload
\* carries tags (DATA_AND_TAG or TAG_ONLY)
putTagData(tag_bt, flag, tag, entityid) ==
  IF flag \in {"DATA_AND_TAG", "TAG_ONLY"}
  THEN Append(tag_bt, [tag |-> tag, entity |-> entityid])
  ELSE tag_bt

\* TsEntityGroup::PutData enters allocateEntityGroupId with its payload
AllocBegin(t, tag, flag) ==
  /\ ea.at[t].pc \in {"idle", "done"}
  /\ Len(ea.allocated) < MaxAllocated
  /\ ea' = [ea EXCEPT !.at[t] = [pc |-> "query", tag |-> tag, flag |-> flag,
                                  entityid |-> 0, fresh |-> FALSE, status |-> "none"]]
  /\ AllocQuiet

\* the first getEntityIdGroupId, without mutex_: found returns SUCCESS
AllocQuery(t) ==
  /\ ea.at[t].pc = "query"
  /\ ea' = IF getEntityIdGroupId(ea.tag_bt, ea.at[t].tag) # 0
            THEN [ea EXCEPT !.at[t].pc = "done", !.at[t].status = "SUCCESS",
                            !.at[t].entityid = getEntityIdGroupId(ea.tag_bt, ea.at[t].tag)]
            ELSE [ea EXCEPT !.at[t].pc = "lock"]
  /\ AllocQuiet

\* MUTEX_LOCK(mutex_)
AllocLock(t) ==
  /\ ea.at[t].pc = "lock"
  /\ ea.mutex_ = 0
  /\ ea' = [ea EXCEPT !.mutex_ = t, !.at[t].pc = "requery"]
  /\ AllocQuiet

\* the second getEntityIdGroupId, under mutex_: found unlocks and returns
AllocRequery(t) ==
  /\ ea.at[t].pc = "requery"
  /\ ea' = IF getEntityIdGroupId(ea.tag_bt, ea.at[t].tag) # 0
            THEN [ea EXCEPT !.at[t].pc = "done", !.at[t].status = "SUCCESS",
                            !.at[t].entityid = getEntityIdGroupId(ea.tag_bt, ea.at[t].tag),
                            !.mutex_ = 0]
            ELSE [ea EXCEPT !.at[t].pc = "allocate"]
  /\ AllocQuiet

\* ebt_manager_->AllocateEntity: a new entity id, or an error code that
\* unlocks and returns FAIL
AllocateEntity(t, ok) ==
  /\ ea.at[t].pc = "allocate"
  /\ ok \/ ea.faults < MaxAllocFaults
  /\ ea' = IF ok
            THEN [ea EXCEPT !.allocated = Append(@, ea.at[t].tag),
                            !.at[t].entityid = Len(ea.allocated) + 1,
                            !.at[t].fresh = TRUE, !.at[t].pc = "insert"]
            ELSE [ea EXCEPT !.at[t].pc = "done", !.at[t].status = "FAIL",
                            !.mutex_ = 0, !.faults = @ + 1]
  /\ AllocQuiet

\* putTagData, MUTEX_UNLOCK and the return: a failed insert returns FAIL
AllocPutTagData(t, ok) ==
  /\ ea.at[t].pc = "insert"
  /\ ok \/ ea.faults < MaxAllocFaults
  /\ ea' = IF ok
            THEN [ea EXCEPT !.tag_bt = putTagData(@, ea.at[t].flag, ea.at[t].tag,
                                                  ea.at[t].entityid),
                            !.at[t].pc = "done", !.at[t].status = "SUCCESS", !.mutex_ = 0]
            ELSE [ea EXCEPT !.at[t].pc = "done", !.at[t].status = "FAIL",
                            !.mutex_ = 0, !.faults = @ + 1]
  /\ AllocQuiet

NextAlloc ==
  \/ \E t \in AllocThreads, tag \in PrimaryTags, flag \in PayloadFlags : AllocBegin(t, tag, flag)
  \/ \E t \in AllocThreads : AllocQuery(t)
  \/ \E t \in AllocThreads : AllocLock(t)
  \/ \E t \in AllocThreads : AllocRequery(t)
  \/ \E t \in AllocThreads, ok \in BOOLEAN : AllocateEntity(t, ok)
  \/ \E t \in AllocThreads, ok \in BOOLEAN : AllocPutTagData(t, ok)

SpecAlloc == InitFault /\ [][NextAlloc]_vars

(***************************************************************************)
(* TsTable::AddColumn and TsTable::DropColumn.  ddl = [schema, eg, last]:  *)
(* the column ids of the root metrics table (entity_bt_) in schema order,  *)
(* the columns each entity group holds data files for, and the last call   *)
(* [call, col, attr, existed, status].  A general tag column goes to the   *)
(* entity groups' tag tables, whose answer is an input of the call.        *)
(***************************************************************************)
DdlColumns == {2, 3}
DdlGroups == {1, 2}
AttrTypes == {"metric", "tag"}
DdlFaults == {"none", "meta", "group1", "group2", "tag"}
MaxColumns == 3

DdlQuiet ==
  UNCHANGED <<store, block_rows, wr, written, dedup_seen, ndel, last_del, iter, ret,
              mtr, alive, drop_mutex, th, iters_live, dropped, restarts, col_type, rd,
              wal, pcache, api, heap, hidx, op, fl, ea, lp, tab, tg, ds>>

\* entity_bt_->getColumnIndex: the position of the column, -1 when absent
getColumnIndex(schema, col) ==
  IF \E i \in 1..Len(schema) : schema[i] = col
  THEN (CHOOSE i \in 1..Len(schema) : schema[i] = col) - 1
  ELSE -1

\* the loop over entity_groups_ calling AlterTable: the groups before the
\* failing one are altered, the loop returns at the failing one
AlterTable(eg, type, col, fault) ==
  [g \in DdlGroups |->
     IF fault = "group1" \/ (fault = "group2" /\ g = 2) THEN eg[g]
     ELSE IF type = "ADD_COLUMN" THEN eg[g] \cup {col} ELSE eg[g] \ {col}]

\* the status of the metric branch once the column has to be changed
MetricStatus(fault) == IF fault \in {"meta", "group1", "group2"} THEN "FAIL" ELSE "SUCCESS"

\* an AddColumn that does not look for the column first
TsTableAddColumnNoCheck(d, col, attr, fault) ==
  IF attr = "tag"
  THEN [d EXCEPT !.last = [call |-> "AddColumn", col |-> col, attr |-> attr,
                           existed |-> FALSE,
                           status |-> IF fault = "tag" THEN "FAIL" ELSE "SUCCESS"]]
  ELSE [schema |-> IF fault = "meta" THEN d.schema ELSE Append(d.schema, col),
        eg |-> IF fault = "meta" THEN d.eg ELSE AlterTable(d.eg, "ADD_COLUMN", col, fault),
        last |-> [call |-> "AddColumn", col |-> col, attr |-> attr,
                  existed |-> getColumnIndex(d.schema, col) >= 0,
                  status |-> MetricStatus(fault)]]

\* TsTable::AddColumn: a general tag is added to every entity group's tag
\* table; a metric column that exists returns SUCCESS at once, else it is
\* added to the root table and then to every entity group
TsTableAddColumn(d, col, attr, fault) ==
  IF attr = "tag"
  THEN [d EXCEPT !.last = [call |-> "AddColumn", col |-> col, attr |-> attr,
                           existed |-> FALSE,
                           status |-> IF fault = "tag" THEN "FAIL" ELSE "SUCCESS"]]
  ELSE IF getColumnIndex(d.schema, col) >= 0
  THEN [d EXCEPT !.last = [call |-> "AddColumn", col |-> col, attr |-> attr,
                           existed |-> TRUE, status |-> "SUCCESS"]]
  ELSE [schema |-> IF fault = "meta" THEN d.schema ELSE Append(d.schema, col),
        eg |-> IF fault = "meta" THEN d.eg ELSE AlterTable(d.eg, "ADD_COLUMN", col, fault),
        last |-> [call |-> "AddColumn", col |-> col, attr |-> attr, existed |-> FALSE,
                  status |-> MetricStatus(fault)]]

\* TsTable::DropColumn: a metric column that is absent returns SUCCESS at
\* once, else it is dropped from the root table and from every entity group
TsTableDropColumn(d, col, attr, fault) ==
  IF attr = "tag"
  THEN [d EXCEPT !.last = [call |-> "DropColumn", col |-> col, attr |-> attr,
                           existed |-> TRUE,
                           status |-> IF fault = "tag" THEN "FAIL" ELSE "SUCCESS"]]
  ELSE IF getColumnIndex(d.schema, col) < 0
  THEN [d EXCEPT !.last = [call |-> "DropColumn", col |-> col, attr |-> attr,
                           existed |-> FALSE, status |-> "SUCCESS"]]
  ELSE [schema |-> IF fault = "meta" THEN d.schema
                   ELSE SelectSeq(d.schema, LAMBDA c : c # col),
        eg |-> IF fault = "meta" THEN d.eg ELSE AlterTable(d.eg, "DROP_COLUMN", col, fault),
        last |-> [call |-> "DropColumn", col |-> col, attr |-> attr, existed |-> TRUE,
                  status |-> MetricStatus(fault)]]

AddColumn(col, attr, fault) ==
  /\ Len(ddl.schema) <= MaxColumns
  /\ ddl' = TsTableAddColumn(ddl, col, attr, fault)
  /\ DdlQuiet

DropColumn(col, attr, fault) ==
  /\ ddl' = TsTableDropColumn(ddl, col, attr, fault)
  /\ DdlQuiet

NextDdl ==
  \/ \E col \in DdlColumns, attr \in AttrTypes, fault \in DdlFaults : AddColumn(col, attr, fault)
  \/ \E col \in DdlColumns, attr \in AttrTypes, fault \in DdlFaults : DropColumn(col, attr, fault)

SpecDdl == InitFault /\ [][NextDdl]_vars

(***************************************************************************)
(* The partition loop of TsEntityGroup::putDataColumnar with a partition   *)
(* that may be invalid (MMapPartitionTable::isValid).  lp = [pc, payload,  *)
(* batch_start, last_p_time, valid, errcode, all_success, status]; what    *)
(* push_back_payload writes is left to the store specifications.           *)
(***************************************************************************)
LoopPayloads == PayloadsOf({r \in RowsOf(TsValues, {0}) : r.val = 1 /\ ~r.null})
LoopFaults == {"none", "GetPartitionTable", "push_back_payload"}

LoopQuiet ==
  UNCHANGED <<store, block_rows, wr, written, dedup_seen, ndel, last_del, iter, ret,
              mtr, alive, drop_mutex, th, iters_live, dropped, restarts, col_type, rd,
              wal, pcache, api, heap, hidx, op, fl, ea, ddl, tab, tg, ds>>

\* an iteration that treats an invalid partition like a failed
\* GetPartitionTable: all_success = false; break
LoopBodyBreak(l, fault) ==
  LET ns == payloadNextSlice(l.payload, l.last_p_time, l.batch_start)
  IN IF fault = "GetPartitionTable"
     THEN [l EXCEPT !.errcode = "FAIL", !.all_success = FALSE, !.pc = "after"]
     ELSE IF ~l.valid[l.last_p_time]
     THEN [l EXCEPT !.errcode = "DEDUPREJECT", !.all_success = FALSE, !.pc = "after"]
     ELSE IF fault = "push_back_payload"
     THEN [l EXCEPT !.last_p_time = ns.cur_p_time, !.errcode = "FAIL",
                    !.all_success = FALSE, !.pc = "after"]
     ELSE [l EXCEPT !.last_p_time = ns.cur_p_time, !.errcode = "OK",
                    !.batch_start = ns.end_row]

\* the body of while (payloadNextSlice(...)): a failed GetPartitionTable
\* breaks; an invalid partition sets DEDUPREJECT and continues; else
\* last_p_time = p_time, push_back_payload (a failure breaks) and
\* batch_start = row_id
LoopBody(l, fault) ==
  LET ns == payloadNextSlice(l.payload, l.last_p_time, l.batch_start)
  IN IF fault = "GetPartitionTable"
     THEN [l EXCEPT !.errcode = "FAIL", !.all_success = FALSE, !.pc = "after"]
     ELSE IF ~l.valid[l.last_p_time]
     THEN [l EXCEPT !.errcode = "DEDUPREJECT"]
     ELSE IF fault = "push_back_payload"
     THEN [l EXCEPT !.last_p_time = ns.cur_p_time, !.errcode = "FAIL",
                    !.all_success = FALSE, !.pc = "after"]
     ELSE [l EXCEPT !.last_p_time = ns.cur_p_time, !.errcode = "OK",
                    !.batch_start = ns.end_row]

\* putDataColumnar is entered: batch_start = 0, last_p_time is the
\* partition of the payload's first row
LoopEnter(payload) ==
  /\ lp.pc \in {"idle", "done"}
  /\ lp' = [lp EXCEPT !.pc = "loop", !.payload = payload, !.batch_start = 0,
                       !.last_p_time = RowPartition(payload[1]), !.errcode = "OK",
                       !.all_success = TRUE, !.status = "SUCCESS"]
  /\ LoopQuiet

\* one iteration of the loop
LoopIteration(fault) ==
  /\ lp.pc = "loop"
  /\ payloadNextSlice(lp.payload, lp.last_p_time, lp.batch_start).found
  /\ lp' = LoopBody(lp, fault)
  /\ LoopQuiet

\* payloadNextSlice returns false: the loop ends
LoopEnd ==
  /\ lp.pc = "loop"
  /\ ~payloadNextSlice(lp.payload, lp.last_p_time, lp.batch_start).found
  /\ lp' = [lp EXCEPT !.pc = "after"]
  /\ LoopQuiet

\* putAfterProcess and the return of putDataColumnar
LoopReturn ==
  /\ lp.pc = "after"
  /\ lp' = [lp EXCEPT !.pc = "done", !.status = ReturnStatus(lp.all_success, lp.errcode)]
  /\ LoopQuiet

\* another thread drops or reopens a partition: its cached table turns
\* invalid or valid
SetPartitionValid(p, v) ==
  /\ lp.valid[p] # v
  /\ lp' = [lp EXCEPT !.valid[p] = v]
  /\ LoopQuiet

NextLoop ==
  \/ \E payload \in LoopPayloads : LoopEnter(payload)
  \/ \E fault \in LoopFaults : LoopIteration(fault)
  \/ LoopEnd
  \/ LoopReturn
  \/ \E p \in PartitionTimes, v \in BOOLEAN : SetPartitionValid(p, v)

\* the thread inside putDataColumnar keeps running
SpecLoop ==
  /\ InitFault /\ [][NextLoop]_vars
  /\ WF_vars(LoopIteration("none")) /\ WF_vars(LoopEnd) /\ WF_vars(LoopReturn)

(***************************************************************************)
(* TsTable::CreateEntityGroup, TsTable::DropAll and the TsTable::Init that *)
(* DropAll calls, statement by statement for each calling thread.          *)
(* tab = [entity_bt_, entity_groups_, dirs, writer, insts, drop, th]:       *)
(* entity_bt_ is loaded, the TsEntityGroup instance registered for each    *)
(* range group (0 = none; instances are numbered as they are constructed), *)
(* the range group directories on disk, the thread that holds              *)
(* entity_groups_mtx_ exclusively (0 = nobody), the number of instances    *)
(* constructed, the locals of DropAll, each thread's position.  A shared   *)
(* section that is one statement long is one step.                         *)
(***************************************************************************)
TableThreads == {1, 2}
TableGroups == {1, 2}
MaxInstances == 3
InitFaults == {"none", "path", "open", "opendir"}
RelockOutcomes == {"blocks", "EDEADLK"}

TableQuiet ==
  UNCHANGED <<store, block_rows, wr, written, dedup_seen, ndel, last_del, iter, ret,
              mtr, alive, drop_mutex, th, iters_live, dropped, restarts, col_type, rd,
              wal, pcache, api, heap, hidx, op, fl, ea, ddl, lp, tg, ds>>

\* a registration that looks for the range group again under the
\* exclusive lock: [entity_groups_, status]
RegisterIfAbsent(groups, g, inst) ==
  IF groups[g] # 0
  THEN [entity_groups_ |-> groups, status |-> "FAIL"]
  ELSE [entity_groups_ |-> [groups EXCEPT ![g] = inst], status |-> "SUCCESS"]

\* the end of CreateEntityGroup: RW_LATCH_X_LOCK; entity_groups_[id] =
\* std::move(t_group); return SUCCESS
Register(groups, g, inst) ==
  [entity_groups_ |-> [groups EXCEPT ![g] = inst], status |-> "SUCCESS"]

\* CreateEntityGroup is called: FAIL when the table is not created
CreateBegin(t, g) ==
  /\ tab.th[t].pc \in {"idle", "done"}
  /\ tab.insts < MaxInstances
  /\ tab' = [tab EXCEPT !.th[t] = IF tab.entity_bt_
                                 THEN [pc |-> "check", call |-> "CreateEntityGroup", g |-> g,
                                       inst |-> 0, status |-> "none"]
                                 ELSE [pc |-> "done", call |-> "CreateEntityGroup", g |-> g,
                                       inst |-> 0, status |-> "FAIL"]]
  /\ TableQuiet

\* the lookup under the shared lock: "already exist" returns FAIL
CreateCheck(t) ==
  /\ tab.th[t].pc = "check"
  /\ tab.writer = 0
  /\ tab' = IF tab.entity_groups_[tab.th[t].g] # 0
            THEN [tab EXCEPT !.th[t].pc = "done", !.th[t].status = "FAIL"]
            ELSE [tab EXCEPT !.th[t].pc = "create"]
  /\ TableQuiet

\* MakeDirectory, constructEntityGroup and TsEntityGroup::Create, outside
\* any lock: a failure returns FAIL
CreateGroup(t, ok) ==
  /\ tab.th[t].pc = "create"
  /\ tab' = IF ok
            THEN [tab EXCEPT !.insts = @ + 1, !.dirs = @ \cup {tab.th[t].g},
                            !.th[t].inst = tab.insts + 1, !.th[t].pc = "register"]
            ELSE [tab EXCEPT !.th[t].pc = "done", !.th[t].status = "FAIL"]
  /\ TableQuiet

\* the registration under the exclusive lock and the return
CreateRegister(t) ==
  /\ tab.th[t].pc = "register"
  /\ tab.writer = 0
  /\ tab' = [tab EXCEPT
              !.entity_groups_ = Register(@, tab.th[t].g, tab.th[t].inst).entity_groups_,
              !.th[t].status = Register(tab.entity_groups_, tab.th[t].g, tab.th[t].inst).status,
              !.th[t].pc = "done"]
  /\ TableQuiet

\* DropAll is called: FAIL when the table is not created
DropAllBegin(t) ==
  /\ tab.th[t].pc \in {"idle", "done"}
  /\ tab.insts < MaxInstances
  /\ tab' = [tab EXCEPT !.th[t] = IF tab.entity_bt_
                                 THEN [pc |-> "drop_lock", call |-> "DropAll", g |-> 1,
                                       inst |-> 0, status |-> "none"]
                                 ELSE [pc |-> "done", call |-> "DropAll", g |-> 1,
                                       inst |-> 0, status |-> "FAIL"]]
  /\ TableQuiet

\* RW_LATCH_X_LOCK(entity_groups_mtx_) of DropAll
DropAllLock(t) ==
  /\ tab.th[t].pc = "drop_lock"
  /\ tab.writer = 0
  /\ tab' = [tab EXCEPT !.writer = t, !.th[t].pc = "drop_loop",
                       !.drop = [todo |-> {g \in TableGroups : tab.entity_groups_[g] # 0},
                                 range_groups |-> {}, s |-> "SUCCESS"]]
  /\ TableQuiet

\* one iteration of the loop over entity_groups_: the range group is noted
\* and its entity group dropped; a failure breaks
DropAllGroup(t, g, ok) ==
  /\ tab.th[t].pc = "drop_loop"
  /\ g \in tab.drop.todo
  /\ tab' = IF ok
            THEN [tab EXCEPT !.drop.range_groups = @ \cup {g}, !.drop.todo = @ \ {g},
                            !.dirs = @ \ {g}]
            ELSE [tab EXCEPT !.drop.range_groups = @ \cup {g}, !.drop.todo = {},
                            !.drop.s = "FAIL"]
  /\ TableQuiet

\* after the loop: entity_groups_.clear(); on success the table files are
\* removed and DropAll returns SUCCESS (its Defer unlocks); on failure
\* entity_bt_ is deleted and Init is called
DropAllClear(t) ==
  /\ tab.th[t].pc = "drop_loop"
  /\ tab.drop.todo = {}
  /\ tab' = IF tab.drop.s = "SUCCESS"
            THEN [tab EXCEPT !.entity_groups_ = [g \in TableGroups |-> 0],
                            !.entity_bt_ = FALSE, !.dirs = {}, !.writer = 0,
                            !.th[t].pc = "done", !.th[t].status = "SUCCESS"]
            ELSE [tab EXCEPT !.entity_groups_ = [g \in TableGroups |-> 0],
                            !.entity_bt_ = FALSE, !.th[t].pc = "init"]
  /\ TableQuiet

\* TsTable::Init up to its lock: the path check, OpenMMapEntityBigTable,
\* opendir; a failure returns from Init, and DropAll returns s
InitOpen(t, fault) ==
  /\ tab.th[t].pc = "init"
  /\ tab' = IF fault = "none"
            THEN [tab EXCEPT !.entity_bt_ = TRUE, !.th[t].pc = "init_lock"]
            ELSE [tab EXCEPT !.entity_bt_ = (fault = "opendir"), !.writer = 0,
                            !.th[t].pc = "done", !.th[t].status = tab.drop.s]
  /\ TableQuiet

\* an Init that loads the entity groups under the lock its caller holds
InitLockHeld(b, t, outcome) ==
  [b EXCEPT !.th[t].pc = "init_load"]

\* RW_LATCH_X_LOCK(entity_groups_mtx_) of Init.  Called from DropAll the
\* thread holds the lock exclusively already: locking a pthread rwlock
\* again is undefined, the thread blocks for ever or the call returns
\* EDEADLK and Init goes on
InitLock(b, t, outcome) ==
  IF b.writer = t /\ outcome = "blocks"
  THEN [b EXCEPT !.th[t].pc = "blocked"]
  ELSE [b EXCEPT !.th[t].pc = "init_load"]

InitLockStep(t, outcome) ==
  /\ tab.th[t].pc = "init_lock"
  /\ tab.writer \in {0, t}
  /\ tab' = InitLock(tab, t, outcome)
  /\ TableQuiet

\* the directory traversal of Init: every range group directory whose
\* newEntityGroup succeeds (loaded) is registered with a new instance; the
\* Defer of Init unlocks entity_groups_mtx_, Init returns, DropAll returns s
\* and its Defer unlocks again
InitLoad(t, loaded) ==
  /\ tab.th[t].pc = "init_load"
  /\ loaded \subseteq tab.dirs
  /\ tab' = [tab EXCEPT !.entity_groups_ = [g \in TableGroups |->
                                            IF g \in loaded THEN tab.insts + g ELSE 0],
                       !.insts = IF loaded = {} THEN @ ELSE @ + 2,
                       !.writer = 0,
                       !.th[t].pc = "done", !.th[t].status = tab.drop.s]
  /\ TableQuiet

NextCreate ==
  \/ \E t \in TableThreads, g \in TableGroups : CreateBegin(t, g)
  \/ \E t \in TableThreads : CreateCheck(t)
  \/ \E t \in TableThreads, ok \in BOOLEAN : CreateGroup(t, ok)
  \/ \E t \in TableThreads : CreateRegister(t)

SpecCreate == InitFault /\ [][NextCreate]_vars

\* one thread that creates entity groups and drops the table
NextDropAll ==
  \/ \E g \in TableGroups : CreateBegin(1, g)
  \/ CreateCheck(1)
  \/ \E ok \in BOOLEAN : CreateGroup(1, ok)
  \/ CreateRegister(1)
  \/ DropAllBegin(1)
  \/ DropAllLock(1)
  \/ \E g \in TableGroups, ok \in BOOLEAN : DropAllGroup(1, g, ok)
  \/ DropAllClear(1)
  \/ \E fault \in InitFaults : InitOpen(1, fault)
  \/ \E outcome \in RelockOutcomes : InitLockStep(1, outcome)
  \/ \E loaded \in SUBSET TableGroups : InitLoad(1, loaded)

\* the thread inside DropAll keeps running
SpecDropAll ==
  /\ InitFault /\ [][NextDropAll]_vars
  /\ WF_vars(DropAllLock(1)) /\ WF_vars(\E g \in TableGroups, ok \in BOOLEAN : DropAllGroup(1, g, ok))
  /\ WF_vars(DropAllClear(1)) /\ WF_vars(\E fault \in InitFaults : InitOpen(1, fault))
  /\ WF_vars(\E outcome \in RelockOutcomes : InitLockStep(1, outcome))
  /\ WF_vars(\E loaded \in SUBSET TableGroups : InitLoad(1, loaded))

(***************************************************************************)
(* The tag-schema operations of TsEntityGroup and the references they take *)
(* on the tag table.  tg = [tag_bt_, ref, faults, last]: tag_bt_ is "null" *)
(* (not open), "invalid" (being dropped) or "valid"; ref is the table's    *)
(* reference count; faults counts the calls that met a failure; last is    *)
(* the last call [call, before, got, op_ok, status] with the count before  *)
(* it, whether getTagTable succeeded and whether the tag table operation   *)
(* did.                                                                    *)
(***************************************************************************)
TagCalls ==
  {"AddTagInfo", "DropTagInfo", "AlterTagInfo", "UndoAddTagInfo", "UndoDropTagInfo",
   "UndoAlterTagInfo", "RedoAddTagInfo", "RedoDropTagInfo"}
TagTableStates == {"null", "invalid", "valid"}
MaxTagFaults == 2

TagQuiet ==
  UNCHANGED <<store, block_rows, wr, written, dedup_seen, ndel, last_del, iter, ret,
              mtr, alive, drop_mutex, th, iters_live, dropped, restarts, col_type, rd,
              wal, pcache, api, heap, hidx, op, fl, ea, ddl, lp, tab, ds>>

\* TsEntityGroup::getTagTable: a null tag_bt_ is opened (open_ok); FAIL when
\* it is still null or not valid, else incRefCount and SUCCESS
getTagTable(d, open_ok) ==
  LET bt == IF d.tag_bt_ = "null" /\ open_ok THEN "valid" ELSE d.tag_bt_
  IN IF bt = "valid"
     THEN [d EXCEPT !.tag_bt_ = bt, !.ref = @ + 1, !.last.got = TRUE]
     ELSE [d EXCEPT !.tag_bt_ = bt, !.last.got = FALSE]

\* TsEntityGroup::releaseTagTable: nothing when tag_bt_ is null, else
\* decRefCount
releaseTagTable(d) ==
  IF d.tag_bt_ = "null" THEN d ELSE [d EXCEPT !.ref = @ - 1]

\* the calls that call releaseTagTable on the return after a failed
\* getTagTable
ReleasesAfterFailedGet(call) == call = "AddTagInfo"

\* the calls that return FAIL after a failed tag table operation without
\* calling releaseTagTable
ReturnsUnreleased(call) ==
  call \in {"UndoAddTagInfo", "UndoDropTagInfo", "UndoAlterTagInfo"}

\* the status of the call: the redo variants return SUCCESS whatever failed
TagStatus(call, got, op_ok) ==
  IF call \in {"RedoAddTagInfo", "RedoDropTagInfo"} \/ (got /\ op_ok)
  THEN "SUCCESS" ELSE "FAIL"

\* a tag-schema operation that releases on every path on which it got the
\* table and on no other
TagSchemaCallBalanced(d, call, open_ok, op_ok) ==
  LET d0 == [d EXCEPT !.last = [call |-> call, before |-> d.ref, got |-> FALSE,
                                op_ok |-> op_ok, status |-> "none"]]
      d1 == getTagTable(d0, open_ok)
      d2 == IF d1.last.got THEN releaseTagTable(d1) ELSE d1
  IN [d2 EXCEPT !.last.status = TagStatus(call, d1.last.got, op_ok),
                !.faults = IF d1.last.got /\ op_ok THEN @ ELSE @ + 1]

\* one tag-schema operation: getTagTable, the operation on the tag table
\* (AddTagColumn, DropTagColumn, AlterTagType, AlterTableForUndo,
\* AlterTableForRedo), releaseTagTable where the function calls it, return
TagSchemaCall(d, call, open_ok, op_ok) ==
  LET d0 == [d EXCEPT !.last = [call |-> call, before |-> d.ref, got |-> FALSE,
                                op_ok |-> op_ok, status |-> "none"]]
      d1 == getTagTable(d0, open_ok)
      d2 == IF ~d1.last.got
            THEN IF ReleasesAfterFailedGet(call) THEN releaseTagTable(d1) ELSE d1
            ELSE IF ~op_ok /\ ReturnsUnreleased(call) THEN d1
            ELSE releaseTagTable(d1)
  IN [d2 EXCEPT !.last.status = TagStatus(call, d1.last.got, op_ok),
                !.faults = IF d1.last.got /\ op_ok THEN @ ELSE @ + 1]

\* a thread calls one of the operations
TagSchemaOp(call, open_ok, op_ok) ==
  /\ (tg.tag_bt_ # "valid" \/ ~op_ok) => tg.faults < MaxTagFaults
  /\ tg' = TagSchemaCall(tg, call, open_ok, op_ok)
  /\ TagQuiet

\* the tag table is closed, marked invalid by a drop in progress, or valid
SetTagTable(state) ==
  /\ tg.tag_bt_ # state
  /\ tg.tag_bt_ = "null" => state = "valid"
  /\ tg' = [tg EXCEPT !.tag_bt_ = state]
  /\ TagQuiet

NextTag ==
  \/ \E call \in TagCalls, open_ok \in BOOLEAN, op_ok \in BOOLEAN : TagSchemaOp(call, open_ok, op_ok)
  \/ \E state \in TagTableStates : SetTagTable(state)

SpecTag == InitFault /\ [][NextTag]_vars

(***************************************************************************)
(* DistinctOperator.  ds = [pc, offset_, limit_, cur_offset_,              *)
(* examined_rows_, seen, emitted, skipped, code, stop, calls]: seen is the *)
(* operator's set of keys; emitted and skipped are the keys of the rows    *)
(* written to the output chunks and of the rows passed over for OFFSET, in *)
(* order over all Next calls; code is what the last Next returned; stop is *)
(* the break of the row loop.  A row is its distinct key.                  *)
(***************************************************************************)
DistinctKeys == {1, 2, 3}
MaxChunkRows == 3
MaxDistinctCalls == 2
Offsets == 0..2
Limits == 0..2
InputCodes == {"EE_OK", "EE_END_OF_RECORD", "EE_ERROR"}
DataChunks == UNION {[1..n -> DistinctKeys] : n \in 0..MaxChunkRows}

DistinctQuiet ==
  UNCHANGED <<store, block_rows, wr, written, dedup_seen, ndel, last_del, iter, ret,
              mtr, alive, drop_mutex, th, iters_live, dropped, restarts, col_type, rd,
              wal, pcache, api, heap, hidx, op, fl, ea, ddl, lp, tab, tg>>

\* a row loop that remembers the key of a row it passes over for OFFSET
DistinctRowSeen(d, key) ==
  IF key \in d.seen THEN d
  ELSE IF d.limit_ > 0 /\ d.examined_rows_ >= d.limit_
  THEN [d EXCEPT !.code = "EE_END_OF_RECORD", !.stop = TRUE]
  ELSE IF d.cur_offset_ > 0
  THEN [d EXCEPT !.cur_offset_ = @ - 1, !.skipped = Append(@, key), !.seen = @ \cup {key}]
  ELSE [d EXCEPT !.emitted = Append(@, key), !.examined_rows_ = @ + 1,
                 !.seen = @ \cup {key}]

\* one turn of the row loop of DistinctOperator::Next for a row with this
\* key: a key in seen is passed over; else the limit ends the call, a
\* positive cur_offset_ is decremented and the row passed over, or the row
\* is written to the chunk and its key inserted into seen
DistinctRow(d, key) ==
  IF key \in d.seen THEN d
  ELSE IF d.limit_ > 0 /\ d.examined_rows_ >= d.limit_
  THEN [d EXCEPT !.code = "EE_END_OF_RECORD", !.stop = TRUE]
  ELSE IF d.cur_offset_ > 0
  THEN [d EXCEPT !.cur_offset_ = @ - 1, !.skipped = Append(@, key)]
  ELSE [d EXCEPT !.emitted = Append(@, key), !.examined_rows_ = @ + 1,
                 !.seen = @ \cup {key}]

\* the row loop from row k of the chunk on
RECURSIVE DistinctRows(_, _, _)
DistinctRows(d, data_chunk, k) ==
  IF k > Len(data_chunk) \/ d.stop THEN d
  ELSE DistinctRows(DistinctRow(d, data_chunk[k]), data_chunk, k + 1)

\* DistinctOperator::Next: the code of input_->Next when it is not EE_OK,
\* EE_OK for an empty chunk, else the row loop
DistinctOperatorNext(d, code, data_chunk) ==
  IF code # "EE_OK" THEN [d EXCEPT !.code = code]
  ELSE IF data_chunk = <<>> THEN [d EXCEPT !.code = "EE_OK"]
  ELSE [DistinctRows([d EXCEPT !.code = "EE_OK", !.stop = FALSE], data_chunk, 1)
          EXCEPT !.stop = FALSE]

\* the operator is constructed with the OFFSET and LIMIT of its post spec
NewDistinct(offset, limit) ==
  /\ ds.pc = "none"
  /\ ds' = [NoDistinct EXCEPT !.pc = "open", !.offset_ = offset, !.limit_ = limit,
                               !.cur_offset_ = offset]
  /\ DistinctQuiet

\* a Next call; the input delivers code and data_chunk
DistinctNext(code, data_chunk) ==
  /\ ds.pc = "open"
  /\ ds.calls < MaxDistinctCalls
  /\ ds' = [DistinctOperatorNext(ds, code, data_chunk) EXCEPT !.calls = @ + 1]
  /\ DistinctQuiet

NextDistinct ==
  \/ \E offset \in Offsets, limit \in Limits : NewDistinct(offset, limit)
  \/ \E code \in InputCodes, data_chunk \in DataChunks : DistinctNext(code, data_chunk)

SpecDistinct == InitFault /\ [][NextDistinct]_vars

(***************************************************************************)
(* TsEntityGroup::drop_mutex_ (a KRWLatch over a pthread rwlock)           *)
(***************************************************************************)
CanRdLock(m) == ~m.writer
CanWrLock(m) == ~m.writer /\ m.readers = 0
RdLock(m) == [m EXCEPT !.readers = @ + 1]
WrLock(m) == [m EXCEPT !.writer = TRUE]
RdUnlock(m) == [m EXCEPT !.readers = @ - 1]
WrUnlock(m) == [m EXCEPT !.writer = FALSE]

\* a constructor that takes no lock
TsIteratorNoLock(m) == m

\* TsIterator::TsIterator: entity_group_->RdDropLock()
TsIteratorCtor(m) == RdLock(m)

\* TsIterator::~TsIterator: entity_group_->DropUnlock()
TsIteratorDtor(m) == RdUnlock(m)

(***************************************************************************)
(* The iterator specification: one raw iterator over a changing store      *)
(***************************************************************************)
IterMaxDeletes == 1     \* DeleteData calls next to an iterator

IterPayloads == PayloadsOf({r \in RowsOf({1000, 1800, 2000}, {0}) : r.val = 1})
IterEntityLists == {<<1>>, <<1, 2>>}
IterSpans ==
  {AllSpan, <<[begin |-> 1000, end |-> 1400]>>,
   <<[begin |-> 1000, end |-> 1000], [begin |-> 1800, end |-> 1800]>>}
Watermarks == {INVALID_TS, 1500}

\* TsEntityGroup::GetIterator: construct the iterator (shared drop lock), Init
OpenIter(entity_ids, ts_spans, reverse) ==
  /\ alive
  /\ ~iter.valid
  /\ CanRdLock(drop_mutex)
  /\ drop_mutex' = TsIteratorCtor(drop_mutex)
  /\ iters_live' = iters_live + 1
  /\ iter' = GetIterator(store, entity_ids, ts_spans, reverse)
  /\ ret' = NoRet
  /\ UNCHANGED <<store, block_rows, wr, written, dedup_seen, ndel, last_del, mtr,
                 alive, th, dropped, restarts, col_type, rd, wal, pcache, api, heap, hidx, op, fl, ea, ddl, lp, tab, tg, ds>>

\* one call of TsRawDataIterator::Next by a caller that stops once finished
IterNext(ts) ==
  /\ alive
  /\ iter.valid
  /\ ~ret.is_finished
  /\ LET r == TsRawDataIteratorNext(iter, store, ts)
     IN /\ iter' = r.it
        /\ ret' = [f \in DOMAIN NoRet |-> IF f = "odd" THEN ~ret.odd ELSE r[f]]
  /\ UNCHANGED <<store, block_rows, wr, written, dedup_seen, ndel, last_del, mtr,
                 alive, drop_mutex, th, iters_live, dropped, restarts, col_type, rd, wal, pcache, api, heap, hidx, op, fl, ea, ddl, lp, tab, tg, ds>>

\* the caller gives the iterator up after the scan finished
CloseIter ==
  /\ alive
  /\ iter.valid
  /\ ret.is_finished
  /\ drop_mutex' = TsIteratorDtor(drop_mutex)
  /\ iters_live' = iters_live - 1
  /\ iter' = NoIter
  /\ ret' = NoRet
  /\ UNCHANGED <<store, block_rows, wr, written, dedup_seen, ndel, last_del, mtr,
                 alive, th, dropped, restarts, col_type, rd, wal, pcache, api, heap, hidx, op, fl, ea, ddl, lp, tab, tg, ds>>

NextIter ==
  \/ \E e \in Entities, payload \in IterPayloads : PutData(e, payload, "OVERRIDE")
  \/ PutSlice
  \/ PutAfterProcess
  \/ \E e \in Entities, spans \in IterSpans :
        ndel < IterMaxDeletes /\ DeleteData(e, spans)
  \/ \E ids \in IterEntityLists, spans \in IterSpans, reverse \in BOOLEAN :
        OpenIter(ids, spans, reverse)
  \/ \E ts \in Watermarks : IterNext(ts)
  \/ CloseIter

InitIter ==
  /\ InitCommon
  /\ block_rows = 2

SpecIter == InitIter /\ [][NextIter]_vars

\* scans to exhaustion: puts, and a caller of an unfinished iterator that
\* keeps calling Next
ExhaustPayloads == PayloadsOf({r \in RowsOf({1000, 2000}, {0}) : r.val = 1})

NextExhaust ==
  \/ \E e \in Entities, payload \in ExhaustPayloads : PutData(e, payload, "OVERRIDE")
  \/ PutSlice
  \/ PutAfterProcess
  \/ \E ids \in IterEntityLists, reverse \in BOOLEAN : OpenIter(ids, AllSpan, reverse)
  \/ \E ts \in Watermarks : IterNext(ts)
  \/ CloseIter

SpecIterFair ==
  InitIter /\ [][NextExhaust]_vars /\ WF_vars(\E ts \in Watermarks : IterNext(ts))

(***************************************************************************)
(* The aggregate iterator specification: one aggregate iterator over an    *)
(* entity list, next to puts and deletes                                   *)
(***************************************************************************)
AggEntityLists == {<<1>>, <<1, 2>>, <<2, 1>>}
AggSpans == {AllSpan, <<[begin |-> 1000, end |-> 1400]>>}

\* evaluated: the entities the Next calls so far have evaluated, in order
NoAggRet ==
  [called |-> FALSE, count |-> 0, is_finished |-> FALSE, res |-> NoBatch,
   entity_id |-> 0, from |-> {}, evaluated |-> <<>>]

\* TsEntityGroup::GetIterator with scan_agg_types: new TsAggIterator, Init
OpenAgg(entity_ids, ts_spans, reverse) ==
  /\ alive
  /\ ~iter.valid
  /\ CanRdLock(drop_mutex)
  /\ drop_mutex' = TsIteratorCtor(drop_mutex)
  /\ iters_live' = iters_live + 1
  /\ iter' = GetIterator(store, entity_ids, ts_spans, reverse)
  /\ ret' = NoAggRet
  /\ UNCHANGED <<store, block_rows, wr, written, dedup_seen, ndel, last_del, mtr,
                 alive, th, dropped, restarts, col_type, rd, wal, pcache, api, heap, hidx, op, fl, ea, ddl, lp, tab, tg, ds>>

\* one call of TsAggIterator::Next by a caller that stops once finished
AggNext(ts) ==
  /\ alive
  /\ iter.valid
  /\ ~ret.is_finished
  /\ LET r == TsAggIteratorNextCall(iter, store, ts)
     IN /\ iter' = r.it
        /\ ret' = [called |-> TRUE, count |-> r.count, is_finished |-> r.is_finished,
                   res |-> r.res, entity_id |-> r.entity_id, from |-> r.from,
                   evaluated |-> IF r.is_finished THEN ret.evaluated
                                 ELSE Append(ret.evaluated, r.entity_id)]
  /\ UNCHANGED <<store, block_rows, wr, written, dedup_seen, ndel, last_del, mtr,
                 alive, drop_mutex, th, iters_live, dropped, restarts, col_type, rd, wal, pcache, api, heap, hidx, op, fl, ea, ddl, lp, tab, tg, ds>>

NextAgg ==
  \/ \E e \in Entities, payload \in IterPayloads : PutData(e, payload, "OVERRIDE")
  \/ PutSlice
  \/ PutAfterProcess
  \/ ndel < IterMaxDeletes /\ \E e \in Entities : DeleteData(e, AllSpan)
  \/ \E entity_ids \in AggEntityLists, ts_spans \in AggSpans, reverse \in BOOLEAN :
        OpenAgg(entity_ids, ts_spans, reverse)
  \/ \E ts \in Watermarks : AggNext(ts)
  \/ CloseIter

SpecAgg == InitIter /\ [][NextAgg]_vars

(***************************************************************************)
(* Mini-transactions, process kill and recovery                            *)
(* The engine's TSMtrBegin / TSMtrCommit / TSMtrRollback are declared in   *)
(* engine.h only; their effect on the state machine of a mini-transaction  *)
(* follows the WAL design.  The mtr field of a row records under which     *)
(* mini-transaction it was put; the storage keeps no such field.           *)
(***************************************************************************)
MaxRestarts == 1        \* kill / restart cycles in one behaviour

MtrPayloads(m) == PayloadsOf({r \in RowsOf({1000, 2000}, {m}) : r.val = 1})

InFlightUnder(m) == wr.pc # "idle" /\ wr.payload[1].mtr = m

TSMtrBegin(m) ==
  /\ alive
  /\ mtr[m] = "none"
  /\ mtr' = [mtr EXCEPT ![m] = "active"]
  /\ UNCHANGED <<store, block_rows, wr, written, dedup_seen, ndel, last_del, iter, ret,
                 alive, drop_mutex, th, iters_live, dropped, restarts, col_type, rd, wal, pcache, api, heap, hidx, op, fl, ea, ddl, lp, tab, tg, ds>>

\* TsTable::PutData -> TsEntityGroup::PutData(payloads, length, mtr_id, ...):
\* each payload goes to PutData(ctx, payloads[i], 0, ...)
MtrPutData(m, e, payload) ==
  /\ mtr[m] = "active"
  /\ PutData(e, payload, "OVERRIDE")

TSMtrCommit(m) ==
  /\ alive
  /\ mtr[m] = "active"
  /\ ~InFlightUnder(m)
  /\ mtr' = [mtr EXCEPT ![m] = "committed"]
  /\ UNCHANGED <<store, block_rows, wr, written, dedup_seen, ndel, last_del, iter, ret,
                 alive, drop_mutex, th, iters_live, dropped, restarts, col_type, rd, wal, pcache, api, heap, hidx, op, fl, ea, ddl, lp, tab, tg, ds>>

\* the rows put under m are tombstoned
RollbackRows(blocks, m) ==
  [i \in 1..Len(blocks) |->
     LET mine == {k \in 1..blocks[i].publish_row_count : blocks[i].rows[k].mtr = m}
     IN IF mine = {} THEN blocks[i]
        ELSE [blocks[i] EXCEPT !.deleted = @ \cup mine, !.is_agg_res_available = FALSE]]

TSMtrRollback(m) ==
  /\ alive
  /\ mtr[m] = "active"
  /\ ~InFlightUnder(m)
  /\ mtr' = [mtr EXCEPT ![m] = "aborted"]
  /\ store' = [p \in PartitionTimes |-> RollbackRows(store[p], m)]
  /\ UNCHANGED <<block_rows, wr, written, dedup_seen, ndel, last_del, iter, ret,
                 alive, drop_mutex, th, iters_live, dropped, restarts, col_type, rd, wal, pcache, api, heap, hidx, op, fl, ea, ddl, lp, tab, tg, ds>>

\* the process is killed: what is in memory is lost (the put in flight, the
\* table of active mini-transactions), the mapped files stay as they are
Kill ==
  /\ alive
  /\ restarts < MaxRestarts
  /\ alive' = FALSE
  /\ wr' = IdleWr
  /\ mtr' = [m \in Mtrs |-> IF mtr[m] = "active" THEN "killed" ELSE mtr[m]]
  /\ UNCHANGED <<store, block_rows, written, dedup_seen, ndel, last_del, iter, ret,
                 drop_mutex, th, iters_live, dropped, restarts, col_type, rd, wal, pcache, api, heap, hidx, op, fl, ea, ddl, lp, tab, tg, ds>>

\* TsTable::Recover: no processing
Recover(st) == st

\* the process restarts and runs Recover
Restart ==
  /\ ~alive
  /\ alive' = TRUE
  /\ restarts' = restarts + 1
  /\ store' = Recover(store)
  /\ UNCHANGED <<block_rows, wr, written, dedup_seen, ndel, last_del, iter, ret, mtr,
                 drop_mutex, th, iters_live, dropped, col_type, rd, wal, pcache, api, heap, hidx, op, fl, ea, ddl, lp, tab, tg, ds>>

NextMtr ==
  \/ \E m \in Mtrs : TSMtrBegin(m)
  \/ \E m \in Mtrs : \E e \in Entities, payload \in MtrPayloads(m) : MtrPutData(m, e, payload)
  \/ PutSlice
  \/ PutAfterProcess
  \/ \E m \in Mtrs : TSMtrCommit(m)
  \/ \E m \in Mtrs : TSMtrRollback(m)
  \/ Kill
  \/ Restart

SpecMtr == InitIter /\ [][NextMtr]_vars

(***************************************************************************)
(* Calls of several threads on one entity-group and its drop lock          *)
(* th[t] names the call thread t is inside:                                *)
(*   "PutDataBatch"  PutData(payloads, length, mtr_id, ...)                *)
(*   "PutData"       PutData(payload, mini_trans_id, ...)                  *)
(*   "DeleteData", "AlterTagInfo", "Iterator" (between constructor and     *)
(*   destructor), "DropWait" (Drop called, at RW_LATCH_X_LOCK), "Drop"     *)
(*   (lock held, before the removal), "DropRemoved" (after the removal)    *)
(***************************************************************************)
LockQuiet ==
  UNCHANGED <<store, block_rows, wr, written, dedup_seen, ndel, last_del, iter, ret,
              mtr, alive, restarts, col_type, rd, wal, pcache, api, heap, hidx, op, fl, ea, ddl, lp, tab, tg, ds>>

\* RW_LATCH_S_LOCK(drop_mutex_) at the head of a call
SharedEnter(t, call) ==
  /\ th[t] = "idle"
  /\ CanRdLock(drop_mutex)
  /\ drop_mutex' = RdLock(drop_mutex)
  /\ th' = [th EXCEPT ![t] = call]
  /\ UNCHANGED <<iters_live, dropped>>
  /\ LockQuiet

\* the Defer of the call: RW_LATCH_UNLOCK(drop_mutex_)
SharedReturn(t, call) ==
  /\ th[t] = call
  /\ drop_mutex' = RdUnlock(drop_mutex)
  /\ th' = [th EXCEPT ![t] = "idle"]
  /\ UNCHANGED <<iters_live, dropped>>
  /\ LockQuiet

PutDataBatchEnter(t) == SharedEnter(t, "PutDataBatch")
PutDataBatchReturn(t) == SharedReturn(t, "PutDataBatch")
DeleteDataEnter(t) == SharedEnter(t, "DeleteData")
DeleteDataReturn(t) == SharedReturn(t, "DeleteData")
AlterTagInfoEnter(t) == SharedEnter(t, "AlterTagInfo")
AlterTagInfoReturn(t) == SharedReturn(t, "AlterTagInfo")

\* PutData(ctx, payload, mini_trans_id, dedup_result, dedup_rule): no latch
PutDataSingleEnter(t) ==
  /\ th[t] = "idle"
  /\ th' = [th EXCEPT ![t] = "PutData"]
  /\ UNCHANGED <<drop_mutex, iters_live, dropped>>
  /\ LockQuiet

PutDataSingleReturn(t) ==
  /\ th[t] = "PutData"
  /\ th' = [th EXCEPT ![t] = "idle"]
  /\ UNCHANGED <<drop_mutex, iters_live, dropped>>
  /\ LockQuiet

\* GetIterator: new TsRawDataIterator / TsAggIterator
IteratorCreate(t) ==
  /\ th[t] = "idle"
  /\ CanRdLock(drop_mutex)
  /\ drop_mutex' = TsIteratorCtor(drop_mutex)
  /\ iters_live' = iters_live + 1
  /\ th' = [th EXCEPT ![t] = "Iterator"]
  /\ UNCHANGED dropped
  /\ LockQuiet

\* delete iterator
IteratorDestroy(t) ==
  /\ th[t] = "Iterator"
  /\ drop_mutex' = TsIteratorDtor(drop_mutex)
  /\ iters_live' = iters_live - 1
  /\ th' = [th EXCEPT ![t] = "idle"]
  /\ UNCHANGED dropped
  /\ LockQuiet

\* TsEntityGroup::Drop is called
DropCall(t) ==
  /\ th[t] = "idle"
  /\ ~dropped
  /\ th' = [th EXCEPT ![t] = "DropWait"]
  /\ UNCHANGED <<drop_mutex, iters_live, dropped>>
  /\ LockQuiet

\* RW_LATCH_X_LOCK(drop_mutex_) is granted
DropLock(t) ==
  /\ th[t] = "DropWait"
  /\ CanWrLock(drop_mutex)
  /\ drop_mutex' = WrLock(drop_mutex)
  /\ th' = [th EXCEPT ![t] = "Drop"]
  /\ UNCHANGED <<iters_live, dropped>>
  /\ LockQuiet

\* DropAll, DropTagTable, delete tag_bt_, fs::remove_all(group_path)
DropRemove(t) ==
  /\ th[t] = "Drop"
  /\ dropped' = TRUE
  /\ th' = [th EXCEPT ![t] = "DropRemoved"]
  /\ UNCHANGED <<drop_mutex, iters_live>>
  /\ LockQuiet

\* the Defer of Drop: RW_LATCH_UNLOCK(drop_mutex_)
DropReturn(t) ==
  /\ th[t] = "DropRemoved"
  /\ drop_mutex' = WrUnlock(drop_mutex)
  /\ th' = [th EXCEPT ![t] = "idle"]
  /\ UNCHANGED <<iters_live, dropped>>
  /\ LockQuiet

\* the entity-group is created again under the same range group
Create ==
  /\ dropped
  /\ \A t \in Threads : th[t] = "idle"
  /\ dropped' = FALSE
  /\ UNCHANGED <<drop_mutex, th, iters_live>>
  /\ LockQuiet

NextLock ==
  \/ \E t \in Threads : PutDataBatchEnter(t)
  \/ \E t \in Threads : PutDataBatchReturn(t)
  \/ \E t \in Threads : PutDataSingleEnter(t)
  \/ \E t \in Threads : PutDataSingleReturn(t)
  \/ \E t \in Threads : DeleteDataEnter(t)
  \/ \E t \in Threads : DeleteDataReturn(t)
  \/ \E t \in Threads : AlterTagInfoEnter(t)
  \/ \E t \in Threads : AlterTagInfoReturn(t)
  \/ \E t \in Threads : IteratorCreate(t)
  \/ \E t \in Threads : IteratorDestroy(t)
  \/ \E t \in Threads : DropCall(t)
  \/ \E t \in Threads : DropLock(t)
  \/ \E t \in Threads : DropRemove(t)
  \/ \E t \in Threads : DropReturn(t)
  \/ Create

SpecLock == InitIter /\ [][NextLock]_vars

(***************************************************************************)
(* Reference definitions used in the properties                            *)
(***************************************************************************)
WrittenOf(e) ==
  LET mine == SelectSeq(written, LAMBDA w : w.entity_id = e)
  IN [i \in 1..Len(mine) |-> mine[i].row]

RowsOfScan(scan) == [i \in 1..Len(scan) |-> scan[i].row]

\* the rows a forward raw scan of one entity over the covering span returns
ScanEntity(e) == RowsOfScan(RawScan(store, <<e>>, AllSpan, FALSE))

Occurrences(s, x) == Cardinality({i \in 1..Len(s) : s[i] = x})

SameRows(s, t) ==
  /\ Len(s) = Len(t)
  /\ \A i \in 1..Len(s) : Occurrences(s, s[i]) = Occurrences(t, s[i])

Ascending(s) == \A i \in 1..(Len(s) - 1) : s[i].ts <= s[i + 1].ts

\* no put is in flight, no put met a collision and nothing was deleted
QuietNoDedup == wr.pc = "idle" /\ ~dedup_seen /\ ndel = 0

(***************************************************************************)
(* C1                                                                      *)
(***************************************************************************)
\* C1 (as stated): after puts without a dedup collision, a forward raw scan
\* of the entity over a covering span returns exactly the written rows, in
\* ascending timestamp order.
C1_RoundTripAscending ==
  QuietNoDedup =>
    \A e \in Entities :
      SameRows(ScanEntity(e), WrittenOf(e)) /\ Ascending(ScanEntity(e))

\* C1 (amended): after puts without a dedup collision, a forward raw scan of
\* the entity over a covering span returns exactly the written rows (none
\* missing, none extra, none duplicated); the rows come back in ascending
\* timestamp order when they were written in ascending timestamp order.
C1_RoundTrip ==
  QuietNoDedup =>
    \A e \in Entities :
      /\ SameRows(ScanEntity(e), WrittenOf(e))
      /\ Ascending(WrittenOf(e)) => ScanEntity(e) = WrittenOf(e)

\* three rows of one entity, written in ascending order into two partitions,
\* have been scanned back
C1_Witness ==
  /\ QuietNoDedup
  /\ \E e \in Entities :
       /\ Len(WrittenOf(e)) >= 3
       /\ Ascending(WrittenOf(e))
       /\ \A p \in PartitionTimes : EntityItem(store[p], e).row_written > 0
       /\ ScanEntity(e) = WrittenOf(e)

\* rows written out of timestamp order have been scanned back complete
C1_WitnessUnordered ==
  /\ QuietNoDedup
  /\ \E e \in Entities :
       /\ Len(WrittenOf(e)) >= 2
       /\ ~Ascending(WrittenOf(e))
       /\ SameRows(ScanEntity(e), WrittenOf(e))


(***************************************************************************)
(* C6                                                                      *)
(***************************************************************************)
ScansOf(st) ==
  [e \in Entities |-> [spans \in SpanChoices |-> [rev \in BOOLEAN |->
     RawScan(st, <<e>>, spans, rev)]]]

\* C6: a DeleteData call reports the number of live rows of the entity
\* inside the spans, after it none of them is returned by a scan; the same
\* DeleteData applied a second time reports 0 and leaves every scan (any
\* entity, any spans, either direction) unchanged.
C6_TombstoneIdempotent ==
  [][ndel' = ndel + 1 =>
       /\ last_del'.count =
            Len(RawScan(store, <<last_del'.entity_id>>, last_del'.spans, FALSE))
       /\ RawScan(store', <<last_del'.entity_id>>, last_del'.spans, FALSE) = <<>>
       /\ last_del'.calls = 2 =>
            (last_del'.count = 0 /\ ScansOf(store') = ScansOf(store))]_vars

\* the same DeleteData ran twice in a row, and the first one removed rows
C6_Witness ==
  /\ ndel = 2
  /\ last_del.calls = 2
  /\ last_del.count = 0
  /\ \E p \in PartitionTimes : \E i \in 1..Len(store[p]) :
        /\ store[p][i].entity_id = last_del.entity_id
        /\ store[p][i].deleted # {}
        /\ \E k \in store[p][i].deleted :
              checkIfTsInSpan(last_del.spans, store[p][i].rows[k].ts)


(***************************************************************************)
(* C9                                                                      *)
(***************************************************************************)
\* a step that is a call of Next
IsNextCall == ret'.called /\ ret' # ret

\* C9: every row a Next call returns is a published row of the returned
\* entity that is not tombstoned and whose timestamp lies inside one of the
\* iterator's ts_spans; a batch served by the whole-block fast path is the
\* whole block, and the block's min_ts and max_ts lie inside one and the
\* same span.
C9_RawRowsLiveInSpan ==
  [][(IsNextCall /\ ret'.count > 0) =>
       LET b == store[ret'.p][ret'.block]
       IN /\ ret'.count = Len(ret'.rows)
          /\ b.entity_id = ret'.entity_id
          /\ \A j \in 1..ret'.count :
               LET k == ret'.first_row + j - 1
               IN /\ k <= b.publish_row_count
                  /\ k \notin b.deleted
                  /\ ret'.rows[j] = b.rows[k]
                  /\ \E i \in 1..Len(iter.ts_spans) :
                        /\ iter.ts_spans[i].begin <= b.rows[k].ts
                        /\ b.rows[k].ts <= iter.ts_spans[i].end
          /\ ret'.fast =>
               /\ ret'.count = b.publish_row_count
               /\ \E i \in 1..Len(iter.ts_spans) :
                     /\ iter.ts_spans[i].begin <= b.min_ts
                     /\ b.max_ts <= iter.ts_spans[i].end]_vars

\* a Next call returned rows row by row from a block that holds a tombstone
\* and whose timestamps are not all inside the spans
C9_Witness ==
  /\ ret.called
  /\ ret.count > 0
  /\ ~ret.fast
  /\ store[ret.p][ret.block].deleted # {}
  /\ store[ret.p][ret.block].is_agg_res_available

\* a Next call returned a whole block through the fast path
C9_WitnessFast ==
  /\ ret.called
  /\ ret.fast
  /\ ret.count >= 2


(***************************************************************************)
(* C10                                                                     *)
(***************************************************************************)
\* every entity of the list was scanned across all its partitions
Exhausted(it) ==
  /\ it.cur_entity_idx >= Len(it.entity_ids)
  /\ it.cur_block_item = 0
  /\ it.block_item_queue = <<>>
  /\ it.cur_p_bts_idx >= Len(it.p_bts)

\* Next reports is_finished only with count = 0 and all entities scanned
FinishedOnlyWhenExhausted ==
  ret.is_finished => (ret.count = 0 /\ Exhausted(iter))

\* C10 (as stated): a caller that keeps calling Next eventually gets
\* count = 0 with is_finished = true, and gets it only when every entity of
\* the list has been scanned across all its partitions.
C10_RawExhaustion ==
  /\ [](iter.valid => <>(ret.is_finished /\ ret.count = 0))
  /\ []FinishedOnlyWhenExhausted


(***************************************************************************)
(* C4                                                                      *)
(***************************************************************************)
\* min, max, sum and count computed naively over the rows of a raw scan
NaiveAggregate(rows) ==
  IF NonNull(rows) = <<>>
  THEN [has |-> FALSE, max |-> 0, min |-> 0, sum |-> 0, count |-> 0]
  ELSE [has |-> TRUE] @@ Calculated(rows)

AggEquivalent(e, spans) ==
  TsAggIteratorNext(store, e, spans) =
    NaiveAggregate(RowsOfScan(RawScan(store, <<e>>, spans, FALSE)))

\* C4 (as stated): for every entity and every set of ts-spans the aggregate
\* iterator's min, max, sum and count equal the same functions computed
\* naively over the rows the raw iterator returns for that entity and spans.
C4_AggregateEquivalence ==
  \A e \in Entities, spans \in SpanChoices : AggEquivalent(e, spans)

\* the equivalence for requests of a single ts-span
AggEquivalentSingleSpan ==
  \A e \in Entities, spans \in {sp \in SpanChoices : Len(sp) = 1} :
     AggEquivalent(e, spans)


(***************************************************************************)
(* C5                                                                      *)
(***************************************************************************)
AggTypeSets == {{"value"}, {"row"}, {"value", "row"}}

\* the entity's published, live, in-span rows of all partitions
LiveRows(st, e, spans) ==
  UNION {{st[p][rid[1]].rows[rid[2]] :
            rid \in {x \in PubRowIds(st[p]) :
                       /\ st[p][x[1]].entity_id = e
                       /\ LiveInSpan(st[p][x[1]], x[2], spans)}} :
         p \in PartitionTimes}

\* the row of the smallest (sign = 1) or largest (sign = -1) timestamp
Extreme(rows, sign) ==
  IF rows = {} THEN NoCand
  ELSE CandOf(CHOOSE r \in rows : \A q \in rows : sign * r.ts <= sign * q.ts)

FullScanAnswer(st, e, spans, types, sign) ==
  LET rows == LiveRows(st, e, spans)
  IN [value |-> IF "value" \in types THEN Extreme({r \in rows : ~r.null}, sign)
                ELSE NoCand,
      row |-> IF "row" \in types THEN Extreme(rows, sign) ELSE NoCand]

\* no two live rows of an entity share a timestamp
DistinctLiveTs ==
  \A e \in Entities :
    \A r, q \in LiveRows(store, e, AllSpan) : r.ts = q.ts => r = q

\* C5 (as stated): for every entity, ts-span set and requested first/last
\* types the short-circuit returns the first, first_row, last and last_row
\* values and timestamps of a full scan of the live in-span rows of all
\* partitions.
C5_FirstLastEqualsFullScan ==
  \A e \in Entities, spans \in SpanChoices, types \in AggTypeSets :
    /\ findFirstData(store, e, spans, types) = FullScanAnswer(store, e, spans, types, 1)
    /\ findLastData(store, e, spans, types) = FullScanAnswer(store, e, spans, types, -1)

\* the short-circuit is right about first_row and last_row
FirstRowLastRowEqualFullScan ==
  \A e \in Entities, spans \in SpanChoices :
    /\ findFirstData(store, e, spans, {"row"}) = FullScanAnswer(store, e, spans, {"row"}, 1)
    /\ findLastData(store, e, spans, {"row"}) = FullScanAnswer(store, e, spans, {"row"}, -1)


(***************************************************************************)
(* C2, C3                                                                  *)
(***************************************************************************)
\* the rows a full forward raw scan of all entities returns
ScannedRows(st) ==
  UNION {{sc[i] : i \in 1..Len(sc)} : sc \in {RawScan(st, <<e>>, AllSpan, FALSE) : e \in Entities}}

WrittenUnder(status) ==
  {written[i] : i \in {j \in 1..Len(written) : mtr[written[j].row.mtr] \in status}}

\* C2 (as stated): when the process has restarted after a kill and run
\* Recover, the rows visible to iterators are exactly the rows written under
\* mini-transactions whose Commit was issued before the kill; rows of a
\* mini-transaction without Commit are invisible.
C2_Recovery ==
  [][(~alive /\ alive') =>
       /\ \A w \in ScannedRows(store') : mtr'[w.row.mtr] = "committed"
       /\ \A w \in WrittenUnder({"committed"}) :
            \E v \in ScannedRows(store') : v.entity_id = w.entity_id /\ v.row.ts = w.row.ts]_vars

\* C3 (as stated): an iterator returns a row put under a mini-transaction
\* only when that mini-transaction is Committed; not while it is Active and
\* not after it was rolled back.
C3_MtrVisibility ==
  \A w \in ScannedRows(store) : mtr[w.row.mtr] = "committed"

\* rows of a rolled-back mini-transaction are not returned
RolledBackInvisible ==
  \A w \in ScannedRows(store) : mtr[w.row.mtr] # "aborted"


(***************************************************************************)
(* C7, C8                                                                  *)
(***************************************************************************)
InDrop(t) == th[t] \in {"Drop", "DropRemoved"}

\* C7: while an iterator on the entity-group exists (constructed and not yet
\* destroyed), no Drop of that entity-group is past the acquisition of the
\* drop lock, and no step removes the tag table and the partition files.
C7_NoDropUnderIterator ==
  [][/\ (iters_live' > 0 => \A t \in Threads : ~InDrop(t)')
     /\ (iters_live > 0 => dropped' = dropped)]_vars

\* an iterator is alive and a Drop has been called and waits for the lock
C7_Witness ==
  /\ iters_live > 0
  /\ \E t \in Threads : th[t] = "DropWait"
  /\ \E t \in Threads : th[t] = "Iterator"

\* C8 (as stated): a thread inside Drop (holding the lock) or inside an alter
\* is alone: no other thread is inside a put, a delete or an iterator, and
\* every call in progress other than drop/alter holds the lock shared.
C8_DropAlterExclusive ==
  \A t \in Threads :
    (InDrop(t) \/ th[t] = "AlterTagInfo") =>
      \A u \in Threads \ {t} : th[u] \in {"idle", "DropWait"}

\* Drop never runs next to a call that takes the shared lock
DropExcludesSharedCalls ==
  \A t \in Threads :
    InDrop(t) =>
      \A u \in Threads \ {t} : th[u] \in {"idle", "DropWait", "PutData"}


(***************************************************************************)
(* C11                                                                     *)
(***************************************************************************)
\* the iterator stands on a block item of a partition that lies entirely
\* beyond the watermark ts
PartitionBeyond(it, ts) ==
  /\ it.valid
  /\ it.cur_block_item # 0
  /\ ts # INVALID_TS
  /\ LET p == it.p_bts[it.cur_p_bts_idx + 1]
     IN \/ ~it.is_reversed /\ minTimestamp(p) * 1000 > ts
        \/ it.is_reversed /\ maxTimestamp(p) * 1000 < ts

\* C11 (as stated): a Next call with a watermark, made while the current
\* partition lies entirely beyond the watermark, returns no rows and reports
\* the iteration finished.
C11_WatermarkTerminates ==
  [][\A ts \in Watermarks :
       (PartitionBeyond(iter, ts) /\ IterNext(ts)) =>
          (ret'.count = 0 /\ ret'.is_finished)]_vars

\* such a call returns no rows and leaves the iterator where it is; through
\* TsTableIterator::Next the caller receives count 0 and current_iter_ stays
WatermarkCallReturnsNoRows ==
  [][\A ts \in Watermarks :
       (PartitionBeyond(iter, ts) /\ IterNext(ts)) =>
          /\ ret'.count = 0
          /\ iter' = iter
          /\ TsTableIteratorNext(iter, store, ts).count = 0
          /\ TsTableIteratorNext(iter, store, ts).current_iter = 0]_vars


(***************************************************************************)
(* C12                                                                     *)
(***************************************************************************)
\* the block item a returned batch was taken from
BatchBlock(r) == store'[r.p][r.block]

\* a Next call returned rows, and so did the call before it, for one entity
SuccessiveBatches ==
  /\ IsNextCall
  /\ ret.called /\ ret.count > 0
  /\ ret'.count > 0
  /\ ret'.entity_id = ret.entity_id

\* C12 (as stated): for one entity the blocks of successive batches have
\* non-decreasing min_ts in forward mode and non-increasing max_ts in
\* reverse mode.
C12_CrossBatchOrdering ==
  [][SuccessiveBatches =>
       IF iter.is_reversed
       THEN BatchBlock(ret').max_ts <= BatchBlock(ret).max_ts
       ELSE BatchBlock(ret).min_ts <= BatchBlock(ret').min_ts]_vars

\* forward mode only
ForwardBatchOrdering ==
  [][(SuccessiveBatches /\ ~iter.is_reversed) =>
       BatchBlock(ret).min_ts <= BatchBlock(ret').min_ts]_vars

\* reverse mode, by min_ts
ReverseBatchOrderingByMinTs ==
  [][(SuccessiveBatches /\ iter.is_reversed) =>
       BatchBlock(ret').min_ts <= BatchBlock(ret).min_ts]_vars


(***************************************************************************)
(* C13                                                                     *)
(***************************************************************************)
\* a step that is a call of TsAggIterator::Next
IsAggNextCall == ret'.called /\ ret' # ret

\* C13: a Next call of the aggregate iterator yields at most one row; the
\* row aggregates block items of one entity only, the entity of the call;
\* the calls evaluate the entities of the list one by one in list order;
\* is_finished is reported only when every entity has been evaluated.
C13_OneRowPerEntity ==
  [][IsAggNextCall =>
       /\ ret'.count \in {0, 1}
       /\ ret'.from \subseteq {ret'.entity_id}
       /\ ret'.evaluated = SubSeq(iter.entity_ids, 1, Len(ret'.evaluated))
       /\ ret'.is_finished => (ret'.count = 0 /\ ret'.evaluated = iter.entity_ids)
       /\ ~ret'.is_finished =>
            /\ Len(ret'.evaluated) = Len(ret.evaluated) + 1
            /\ ret'.entity_id = iter.entity_ids[Len(ret'.evaluated)]]_vars

\* the second entity of a list has just been evaluated to a row, and both
\* entities have rows in the same partition
C13_Witness ==
  /\ iter.valid
  /\ ret.called
  /\ ret.count = 1
  /\ Len(ret.evaluated) = 2
  /\ \E p \in PartitionTimes :
       \A i \in 1..2 : EntityItem(store[p], iter.entity_ids[i]).row_written > 0

\* the iteration over a list of two entities was reported finished
C13_WitnessFinished ==
  /\ iter.valid
  /\ ret.called
  /\ ret.is_finished
  /\ Len(iter.entity_ids) = 2

(***************************************************************************)
(* C14: the type of the SUM result.  For an integer column SUM is int64    *)
(* when the sum fits the promoted type and double, with the overflow flag, *)
(* when it does not; for a float column it is double.  Every batch of the  *)
(* entity obeys the same rule and carries the exact sum of its run,        *)
(* whether it was read from the block's stored aggregate or recomputed     *)
(* from the cells, and a block flagged is_overflow is never read from the  *)
(* stored aggregate.                                                       *)
(***************************************************************************)
SumTypeRule(type, b) ==
  IF IsIntType(type)
  THEN /\ b.is_overflow = (b.val > PromotedMax)
       /\ b.type = IF b.is_overflow THEN "DOUBLE" ELSE "INT64"
  ELSE b.type = "DOUBLE"

SumRunsOf(e, spans) ==
  LET it == [GetIterator(store, <<e>>, spans, FALSE) EXCEPT !.cur_entity_id = e]
  IN SelectSeq(AggRuns(it, store, INVALID_TS), LAMBDA r : r.batch.has)

SumBatchOf(r) == RunSum(col_type, store[r.p][r.block], r.first_row, r.count)

RunRows(r) ==
  SubSeq(store[r.p][r.block].rows, r.first_row, r.first_row + r.count - 1)

C14_SumResultType ==
  \A e \in Entities, spans \in SpanChoices :
    LET runs == SumRunsOf(e, spans)
        res == TsAggIteratorSum(col_type, store, e, spans)
    IN /\ res.has => SumTypeRule(col_type, res)
       /\ res.has =>
            res.val = SeqSum([i \in 1..Len(runs) |-> ValSum(NonNull(RunRows(runs[i])))])
       /\ \A i \in 1..Len(runs) :
            /\ SumTypeRule(col_type, SumBatchOf(runs[i]))
            /\ SumBatchOf(runs[i]).val = ValSum(NonNull(RunRows(runs[i])))
            /\ store[runs[i].p][runs[i].block].is_overflow
                 => ~SumBatchOf(runs[i]).stored

\* an INT32 column: a whole block flagged is_overflow was recomputed to an
\* int64 batch, and the result of the entity overflowed to double
C14_Witness ==
  /\ col_type = "INT32"
  /\ \E e \in Entities :
       LET runs == SumRunsOf(e, AllSpan)
           res == TsAggIteratorSum(col_type, store, e, AllSpan)
       IN /\ res.has /\ res.is_overflow /\ res.type = "DOUBLE"
          /\ \E i \in 1..Len(runs) :
               /\ store[runs[i].p][runs[i].block].is_overflow
               /\ runs[i].count = store[runs[i].p][runs[i].block].publish_row_count
               /\ SumBatchOf(runs[i]).type = "INT64"

\* an INT32 column: a batch read from a stored aggregate is int64
C14_WitnessStored ==
  /\ col_type = "INT32"
  /\ \E e \in Entities :
       LET runs == SumRunsOf(e, AllSpan)
       IN \E i \in 1..Len(runs) :
            SumBatchOf(runs[i]).stored /\ SumBatchOf(runs[i]).type = "INT64"

\* a float column: a batch read from a stored aggregate is double
C14_WitnessFloat ==
  /\ col_type = "FLOAT"
  /\ \E e \in Entities :
       LET runs == SumRunsOf(e, AllSpan)
       IN \E i \in 1..Len(runs) :
            SumBatchOf(runs[i]).stored /\ SumBatchOf(runs[i]).type = "DOUBLE"

(***************************************************************************)
(* C15: dedup OVERRIDE.  After puts under OVERRIDE, for every timestamp    *)
(* written to an entity a scan returns exactly one row, the row of the     *)
(* latest put of that timestamp, and the count aggregate counts each       *)
(* timestamp once (when its latest value is not null).                     *)
(***************************************************************************)
WrittenTs(e) == {WrittenOf(e)[i].ts : i \in 1..Len(WrittenOf(e))}

LastWritten(e, ts) ==
  LET w == WrittenOf(e)
  IN w[SetMax({i \in 1..Len(w) : w[i].ts = ts})]

C15_DedupOverride ==
  wr.pc = "idle" =>
    \A e \in Entities :
      LET scan == ScanEntity(e)
      IN /\ \A ts \in WrittenTs(e) :
              /\ Cardinality({i \in 1..Len(scan) : scan[i].ts = ts}) = 1
              /\ \E i \in 1..Len(scan) : scan[i] = LastWritten(e, ts)
         /\ Len(scan) = Cardinality(WrittenTs(e))
         /\ TsAggIteratorNext(store, e, AllSpan).count =
              Cardinality({ts \in WrittenTs(e) : ~LastWritten(e, ts).null})

\* a timestamp was written by two PutData calls with different values, and
\* the scan returns the later one
C15_Witness ==
  /\ wr.pc = "idle"
  /\ dedup_seen
  /\ \E e \in Entities :
       LET w == WrittenOf(e)
       IN \E i, j \in 1..Len(w) :
            /\ i < j
            /\ w[i].ts = w[j].ts
            /\ ~w[i].null /\ ~w[j].null /\ w[i].val # w[j].val
            /\ LastWritten(e, w[i].ts) = w[j]
            /\ \E k \in 1..Len(ScanEntity(e)) : ScanEntity(e)[k] = w[j]
            /\ TsAggIteratorNext(store, e, AllSpan).count = 1

(***************************************************************************)
(* C16: dedup REJECT is per row.  When a PutData call under REJECT         *)
(* returns, every row of its payload that collides with no stored row (and *)
(* with no other row of the payload) is returned by a scan of the entity.  *)
(***************************************************************************)
\* the rows a forward raw scan of entity e returns from store st
ScanEntityIn(st, e) == RowsOfScan(RawScan(st, <<e>>, AllSpan, FALSE))

\* the call in flight returns in this step
PutReturns == wr.pc # "idle" /\ wr'.pc = "idle"

\* the live published rows of the entity with this timestamp
StoredRows(e, ts) ==
  {rid \in PubRowIds(store[PartitionTime(ts \div 1000)]) :
      LET b == store[PartitionTime(ts \div 1000)][rid[1]]
      IN b.entity_id = e /\ rid[2] \notin b.deleted /\ b.rows[rid[2]].ts = ts}

\* row i of the payload in flight collides with nothing
NonColliding(i) ==
  /\ StoredRows(wr.entity_id, wr.payload[i].ts) = {}
  /\ \A j \in 1..Len(wr.payload) : j # i => wr.payload[j].ts # wr.payload[i].ts

C16_RejectPerRow ==
  [][(PutReturns /\ wr.dedup_rule = "REJECT") =>
       \A i \in 1..Len(wr.payload) :
         NonColliding(i) =>
           \E k \in 1..Len(ScanEntityIn(store', wr.entity_id)) :
             ScanEntityIn(store', wr.entity_id)[k] = wr.payload[i]]_vars

\* what the code does: a call under REJECT that met a collision leaves no
\* row of its payload visible, and a call that met none leaves them all
RejectWholePayload ==
  [][(PutReturns /\ wr.dedup_rule = "REJECT") =>
       IF wr.dup
       THEN ScanEntityIn(store', wr.entity_id) = ScanEntity(wr.entity_id)
       ELSE \A i \in 1..Len(wr.payload) :
              \E k \in 1..Len(ScanEntityIn(store', wr.entity_id)) :
                ScanEntityIn(store', wr.entity_id)[k] = wr.payload[i]]_vars

\* under DISCARD only the colliding rows are dropped
DiscardPerRow ==
  [][(PutReturns /\ wr.dedup_rule = "DISCARD") =>
       \A i \in 1..Len(wr.payload) :
         NonColliding(i) =>
           \E k \in 1..Len(ScanEntityIn(store', wr.entity_id)) :
             ScanEntityIn(store', wr.entity_id)[k] = wr.payload[i]]_vars

\* a call under REJECT has returned after a collision in one partition and
\* a row without collision in another
C16_RejectedCall ==
  /\ wr.pc = "idle"
  /\ wr.errcode = "DEDUPREJECT"
  /\ \E e \in Entities :
       \E i \in 1..Len(WrittenOf(e)) :
         \A k \in 1..Len(ScanEntity(e)) : ScanEntity(e)[k].ts # WrittenOf(e)[i].ts

(***************************************************************************)
(* C17: a dedup rejection is never fatal.  A PutData call returns FAIL     *)
(* only when GetPartitionTable or push_back_payload failed with an error   *)
(* other than a dedup rejection; a call whose rows were rejected returns   *)
(* SUCCESS with the dropped rows counted in the dedup result.              *)
(***************************************************************************)
C17_RejectionNeverFatal ==
  wr.pc = "idle" =>
    /\ wr.status = "FAIL" <=> wr.errcode = "FAIL"
    /\ wr.errcode = "DEDUPREJECT" => (wr.status = "SUCCESS" /\ wr.dedup_rows > 0)

\* a call under REJECT has dropped a row and returned
C17_Witness ==
  /\ wr.pc = "idle"
  /\ wr.errcode = "DEDUPREJECT"
  /\ wr.status = "SUCCESS"
  /\ wr.dedup_rows > 0

\* a call has returned FAIL
C17_WitnessFail == wr.pc = "idle" /\ wr.status = "FAIL"

(***************************************************************************)
(* C18: failed writes leave nothing visible.  While a PutData call is in   *)
(* flight no step of it changes the rows a scan returns; when a call whose *)
(* slice failed returns, every span it reserved, in every partition, has   *)
(* been published as deleted, and the scan of every entity returns the     *)
(* rows it returned before the call.                                       *)
(***************************************************************************)
\* the scan of every entity returns the same rows before and after the step
ScansUnchanged ==
  \A e \in Entities : SameRows(ScanEntityIn(store', e), ScanEntityIn(store, e))

\* every span recorded by the call in flight is marked deleted afterwards
SpansReleased ==
  \A p \in PartitionTimes :
    \A i \in 1..Len(wr.info[p].spans) :
      LET s == wr.info[p].spans[i]
      IN /\ (s.start .. s.start + s.num - 1) \subseteq store'[p][s.block].deleted
         /\ store'[p][s.block].publish_row_count >= s.start + s.num - 1

C18_FailedWritesInvisible ==
  [][/\ (wr.pc # "idle" /\ wr'.pc # "idle" /\ ndel' = ndel) => ScansUnchanged
     /\ (PutReturns /\ ~wr.all_success) => (ScansUnchanged /\ SpansReleased)]_vars

\* a call that wrote one partition and failed in the next has returned
\* FAIL, and both partitions hold rows released as deleted
C18_Witness ==
  /\ wr.pc = "idle"
  /\ wr.status = "FAIL"
  /\ ndel = 0
  /\ ~dedup_seen
  /\ \A p \in PartitionTimes :
       \E i \in 1..Len(store[p]) : store[p][i].deleted # {}

(***************************************************************************)
(* C20: publish_row_count is monotone.  No step of a put, successful or    *)
(* failed, and no delete removes a block or lowers the publish_row_count   *)
(* of a block; a delete leaves the rows and the count of every block as    *)
(* they are and only adds bits to the deleted bitmap.                      *)
(***************************************************************************)
C20_PublishRowCountMonotone ==
  [][\A p \in PartitionTimes :
       /\ Len(store'[p]) >= Len(store[p])
       /\ \A i \in 1..Len(store[p]) :
            /\ store'[p][i].publish_row_count >= store[p][i].publish_row_count
            /\ ndel' # ndel =>
                 /\ store'[p][i].publish_row_count = store[p][i].publish_row_count
                 /\ store'[p][i].rows = store[p][i].rows
                 /\ store[p][i].deleted \subseteq store'[p][i].deleted
                 /\ Len(store'[p]) = Len(store[p])]_vars

\* a block of two published rows, one tombstoned by the only delete and one
\* released by a failed put
C20_Witness ==
  /\ wr.pc = "idle"
  /\ wr.status = "FAIL"
  /\ ndel = 1
  /\ ~dedup_seen
  /\ \E p \in PartitionTimes : \E i \in 1..Len(store[p]) :
       store[p][i].publish_row_count = 2 /\ store[p][i].deleted = {1, 2}

(***************************************************************************)
(* C19: reader/writer visibility.  With a writer publishing beside it, an  *)
(* iterator returns no row twice and only rows inside the published count  *)
(* of their block; of every block it returns a prefix: no live row before  *)
(* a returned row is left out; and once it has finished it has returned    *)
(* every row that was published when it was created and is still live.     *)
(***************************************************************************)
OutIds == {rd.out[i] : i \in 1..Len(rd.out)}

C19_ReaderWriterVisibility ==
  /\ \A i, j \in 1..Len(rd.out) : i # j => rd.out[i] # rd.out[j]
  /\ \A x \in OutIds : x[3] <= store[x[1]][x[2]].publish_row_count
  /\ rd.pc = "done" =>
       /\ \A x \in OutIds : \A k \in 1..(x[3] - 1) :
             <<x[1], x[2], k>> \in LiveIds(store, RaceEntity) => <<x[1], x[2], k>> \in OutIds
       /\ (rd.at_open \cap LiveIds(store, RaceEntity)) \subseteq OutIds

\* the iterator has finished, and a block it read holds a row the writer
\* has reserved and not published
C19_Witness ==
  /\ rd.pc = "done"
  /\ wr.pc # "idle"
  /\ \E x \in OutIds : Len(store[x[1]][x[2]].rows) > store[x[1]][x[2]].publish_row_count

\* the iterator has finished and has returned a row that the writer
\* published after the iterator was created
C19_WitnessPublishedMeanwhile ==
  /\ rd.pc = "done"
  /\ rd.at_open # {}
  /\ OutIds \ rd.at_open # {}

\* the sequential read optimization returned a block while the writer had a
\* put in flight
C19_WitnessFast ==
  /\ rd.pc = "advance"
  /\ rd.count = 2
  /\ CurBlock.is_agg_res_available
  /\ wr.pc # "idle"

(***************************************************************************)
(* C21: in every reachable state, for every block whose                    *)
(* is_agg_res_available flag is true, the stored max, min, sum and count   *)
(* equal the aggregates over the live rows 1..publish_row_count of the     *)
(* block, also after deletes, dedup overrides and failed writes.           *)
(***************************************************************************)
RECURSIVE CellSum(_, _)
CellSum(b, K) ==
  IF K = {} THEN 0 ELSE b.rows[SetMin(K)].val + CellSum(b, K \ {SetMin(K)})

\* the stored aggregates of block b are those of its rows K; the sum is
\* compared on request
StoredAggOf(b, K, with_sum) ==
  LET nn == {k \in K : ~b.rows[k].null}
      vals == {b.rows[k].val : k \in nn}
  IN /\ b.count = Cardinality(nn)
     /\ nn # {} => (b.min = SetMin(vals) /\ b.max = SetMax(vals))
     /\ with_sum => b.sum = CellSum(b, nn)

AllBlocks == {<<p, i>> : p \in PartitionTimes, i \in 1..MaxRows}

BlockAt(x) == store[x[1]][x[2]]

AggBlocks == {x \in AllBlocks : x[2] <= Len(store[x[1]]) /\ BlockAt(x).is_agg_res_available}

LiveOf(b) == (1..b.publish_row_count) \ b.deleted

\* the statement as claimed: the stored aggregates are those of the live rows
C21_StoredAggregates ==
  \A x \in AggBlocks : StoredAggOf(BlockAt(x), LiveOf(BlockAt(x)), TRUE)

\* C21 as the write path keeps it: the stored max, min and count of a block
\* whose aggregates are available are those of all its published rows
\* 1..publish_row_count as written, tombstoned or not (the live rows when
\* none is tombstoned), every row of the block is published, and the stored
\* sum is their sum unless the block is flagged is_overflow
C21_StoredAggregatesPublished ==
  \A x \in AggBlocks :
     /\ BlockAt(x).publish_row_count = Len(BlockAt(x).rows)
     /\ StoredAggOf(BlockAt(x), 1..BlockAt(x).publish_row_count, ~BlockAt(x).is_overflow)
     /\ BlockAt(x).is_overflow =>
           CellSum(BlockAt(x), {k \in 1..BlockAt(x).publish_row_count :
                                   ~BlockAt(x).rows[k].null}) > NativeMax

\* a block with available aggregates holds a tombstoned row after a delete
C21_Witness ==
  /\ ndel > 0
  /\ wr.pc = "idle"
  /\ \E x \in AggBlocks : BlockAt(x).deleted # {} /\ BlockAt(x).count > 0

\* a block with available aggregates whose narrow sum overflowed
C21_WitnessOverflow ==
  \E x \in AggBlocks : BlockAt(x).is_overflow /\ BlockAt(x).deleted = {}

\* a block with available aggregates holds the rows of a failed put
C21_WitnessFailed ==
  /\ wr.pc = "idle"
  /\ wr.status = "FAIL"
  /\ ndel = 0
  /\ \E x \in AggBlocks : BlockAt(x).deleted # {}

(***************************************************************************)
(* C22: write-ahead ordering.  Every step of a put or a delete that        *)
(* changes a segment happens after a WAL append, and the LSN in the LSN    *)
(* slot of the payload being written is the LSN that append returned.      *)
(***************************************************************************)
WalLsns == {wal[i].lsn : i \in 1..Len(wal)}

C22_WriteAheadOrdering ==
  [][store' # store =>
       /\ wal # <<>>
       /\ wr.pc # "idle" => wr.lsn \in WalLsns]_vars

\* what the write path does with the LSN slot: nothing is ever appended to
\* the log, and the slot of a payload being written is never 0
LsnSlotMarked ==
  /\ wal = <<>>
  /\ wr.pc # "idle" => wr.lsn # 0 /\ wr.lsn \in (PayloadLsns \ {0}) \cup {LsnExists}

(***************************************************************************)
(* C23: a partition is never evicted while it is referenced: a partition   *)
(* held by the live iterator or recorded by the put in progress has a      *)
(* reference count of at least 1 and is open.                              *)
(***************************************************************************)
CacheHolders(p) ==
  (IF pcache.it_live /\ p \in pcache.p_bts THEN 1 ELSE 0)
    + (IF p \in pcache.info THEN 1 ELSE 0)

C23_PartitionPinned ==
  \A p \in PartitionTimes :
     CacheHolders(p) > 0 => pcache.ref[p] >= 1 /\ pcache.open[p]

\* as long as no partition call has failed every reference is counted
PinnedWithoutFailure ==
  pcache.faults = 0 =>
    \A p \in PartitionTimes : pcache.ref[p] = CacheHolders(p)

\* a partition is closed only while its reference count is 0
EvictedOnlyUnreferenced ==
  [][\A p \in PartitionTimes :
       pcache.open[p] /\ ~pcache'.open[p] => pcache.ref[p] = 0]_vars

(***************************************************************************)
(* C24: NotFound is returned to the caller.  A DeleteData, DeleteEntity or *)
(* PutData call addressed to an entity or entity group that does not exist *)
(* reports NotFound - not success, not a plain failure.                    *)
(***************************************************************************)
C24_NotFoundReported ==
  api.last.call # "none" /\ ~api.last.found => api.last.status = "NotFound"

\* what the calls report for an absent target: DeleteData of an unknown
\* entity plain success with a warning, every other call the plain failure,
\* for an unknown range group with an error log
AbsentTargetStatus ==
  api.last.call # "none" /\ ~api.last.found =>
    /\ api.last.status \in {"SUCCESS", "FAIL"}
    /\ api.last.status = "SUCCESS" <=>
         (api.last.call = "DeleteData" /\ api.last.log = "WARN")
    /\ api.last.call = "DeleteEntity" => api.last.log = "none"
    /\ api.last.call = "PutData" => api.last.log = "ERROR"

(***************************************************************************)
(* C25: every dereference of a string-heap address by a reader happens     *)
(* while that reader holds the heap's shared lock, and never through a     *)
(* pointer obtained before a remap moved the base address.                 *)
(***************************************************************************)
C25_DereferenceUnderSharedLock ==
  heap.deref.by # 0 => heap.deref.locked /\ heap.deref.fresh

\* the segment accessor varColumnAddr copies the value out before it
\* releases the shared lock: its dereference is locked and current
SegmentDereferenceLocked ==
  heap.deref.path = "varColumnAddr" => heap.deref.locked /\ heap.deref.fresh

\* no remap happens while a reader holds the shared lock
RemapExcludesReaders == heap.writer => heap.readers = {}

\* a tag value address is used without the lock, after a remap
StaleTagDereference ==
  heap.deref.path = "getVarValueAddr" /\ ~heap.deref.locked /\ ~heap.deref.fresh

(***************************************************************************)
(* C26: the hash index behaves as a map.  After any sequence of put,       *)
(* delete and rehash, get(key) returns the value of the latest put of the  *)
(* key that no delete of it followed, and -1 otherwise; a rehash to a      *)
(* different bucket count changes no get result.                           *)
(***************************************************************************)
C26_HashIndexIsMap ==
  /\ \A k \in IndexKeys : get(hidx, k) = hidx.latest[k]
  /\ hidx.last.op = "get" => hidx.last.val = hidx.latest[hidx.last.key]

\* a rehash step changes no get result
RehashKeepsGets ==
  [][hidx'.n # hidx.n => \A k \in IndexKeys : get(hidx', k) = get(hidx, k)]_vars

\* a get after a rehash to another bucket count finds a key that shares its
\* chain with a second key, while a third key was put and deleted
C26_Witness ==
  /\ hidx.last.op = "get"
  /\ hidx.last.status = 0
  /\ hidx.n # 2
  /\ Len(hidx.buckets[BucketOf(hidx.last.key, hidx.n)]) >= 2
  /\ \E k \in IndexKeys : hidx.latest[k] = NotFound /\ k # hidx.last.key

(***************************************************************************)
(* C27: operator call protocol.  After Init succeeds, successive Next      *)
(* calls return EE_OK for each chunk produced and, after finitely many     *)
(* calls, EE_END_OF_RECORD; a Close issued after that returns SUCCESS.     *)
(* Stated for the calls of a run in which no storage call fails.           *)
(***************************************************************************)
InitSucceeded == op.is_init /\ op.init_code = "EE_OK" /\ op.pc = "new"

NextCodes ==
  op.last.call = "Next" /\ ~op.failed =>
    /\ op.last.code \in {"EE_OK", "EE_END_OF_RECORD"}
    /\ op.last.rows > 0 <=> op.last.code = "EE_OK"

CloseSucceeds == op.last.call = "Close" => op.last.code = "SUCCESS"

C27_OperatorProtocol ==
  /\ [](NextCodes /\ CloseSucceeds)
  /\ (InitSucceeded ~> (op.last.code = "EE_END_OF_RECORD" \/ op.failed))
  /\ (op.last.code = "EE_END_OF_RECORD" ~> op.pc = "closed")

\* the operator was closed after two chunks and the end of the records,
\* without any failure
C27_Witness ==
  /\ op.pc = "closed"
  /\ op.last.code = "SUCCESS"
  /\ op.chunks = 2
  /\ op.pos = Len(op.batches)
  /\ ~op.failed

(***************************************************************************)
(* C28: short-circuit stop rule.  The first/last short-circuit stops as    *)
(* soon as the timestamp of the candidate of each requested column equals  *)
(* the entity's recorded min_ts (max_ts for last), and not before;         *)
(* partitions after the one in which it stops are not consulted.           *)
(***************************************************************************)
\* the entity's recorded min_ts (sign = 1) or max_ts in the partition of ts
RecordedTs(st, e, ts, sign) ==
  LET item == EntityItem(st[PartitionTime(ts \div 1000)], e)
  IN IF sign = 1 THEN item.min_ts ELSE item.max_ts

\* a scan that stopped inside a partition holds, for every requested type,
\* a candidate at the recorded extreme timestamp
StoppedAtCandidate(st, e, acc, types, sign) ==
  acc.done =>
    /\ "value" \in types => acc.first.ts = RecordedTs(st, e, acc.first.ts, sign)
    /\ "row" \in types => acc.first_row.ts = RecordedTs(st, e, acc.first_row.ts, sign)

C28_StopAtCandidateTimestamp ==
  \A e \in Entities, spans \in SpanChoices, types \in AggTypeSets :
    /\ StoppedAtCandidate(store, e, FindFirstScan(store, e, spans, types, FALSE), types, 1)
    /\ StoppedAtCandidate(store, e, FindLastScan(store, e, spans, types, FALSE), types, -1)

\* what the scan stops at: a visited row at the recorded extreme timestamp
\* of the partition consulted last, once every requested type has some
\* candidate
StoppedAtVisitedRow(st, e, acc, types, sign) ==
  acc.done =>
    /\ hasFoundAggData(acc, types)
    /\ acc.order # <<>>
    /\ acc.stop_ts = RecordedTs(st, e, acc.order[Len(acc.order)] * 1000, sign)
    /\ "row" \in types => sign * acc.first_row.ts <= sign * acc.stop_ts

StopAtVisitedTimestamp ==
  \A e \in Entities, spans \in SpanChoices, types \in AggTypeSets :
    /\ StoppedAtVisitedRow(store, e, FindFirstScan(store, e, spans, types, FALSE), types, 1)
    /\ StoppedAtVisitedRow(store, e, FindLastScan(store, e, spans, types, FALSE), types, -1)

(***************************************************************************)
(* C29: short-circuit partition order.  The first/last short-circuit       *)
(* visits partitions in ascending time order when it searches first-family *)
(* aggregates and in descending time order when it searches last-family    *)
(* aggregates, whatever the value of the iterator's reverse flag.          *)
(***************************************************************************)
\* the partitions of the entity that overlap the spans, in ascending time
\* order
AscendingPartitions(st, e, spans) == GetIterator(st, <<e>>, spans, FALSE).p_bts

\* the visits are the first partitions of the list, in its order
VisitsInOrder(order, list) ==
  /\ Len(order) <= Len(list)
  /\ \A i \in 1..Len(order) : order[i] = list[i]

C29_PartitionOrder ==
  \A e \in Entities, spans \in SpanChoices, types \in AggTypeSets, is_reversed \in BOOLEAN :
    /\ VisitsInOrder(FindFirstScan(store, e, spans, types, is_reversed).order,
                     AscendingPartitions(store, e, spans))
    /\ VisitsInOrder(FindLastScan(store, e, spans, types, is_reversed).order,
                     Reverse(AscendingPartitions(store, e, spans)))

\* the order of the visits follows p_bts_: on a forward iterator first
\* ascends and last descends, on a reversed iterator first descends and
\* last ascends
PartitionOrderFollowsFlag ==
  \A e \in Entities, spans \in SpanChoices, types \in AggTypeSets, is_reversed \in BOOLEAN :
    LET asc == AscendingPartitions(store, e, spans)
    IN /\ VisitsInOrder(FindFirstScan(store, e, spans, types, is_reversed).order,
                        IF is_reversed THEN Reverse(asc) ELSE asc)
       /\ VisitsInOrder(FindLastScan(store, e, spans, types, is_reversed).order,
                        IF is_reversed THEN asc ELSE Reverse(asc))

\* on a reversed iterator the first short-circuit has visited the later
\* partition before the earlier one
ReversedFirstDescends ==
  \E e \in Entities, types \in AggTypeSets :
    LET order == FindFirstScan(store, e, AllSpan, types, TRUE).order
    IN Len(order) = 2 /\ order[1] > order[2]

(***************************************************************************)
(* C30: first-candidate update rule.  While rows are accumulated, the      *)
(* first candidate of a column is replaced iff the new row's timestamp is  *)
(* strictly smaller than the candidate's and the new value is non-null,    *)
(* and the first_row candidate is replaced iff the new timestamp is        *)
(* strictly smaller, regardless of null; a row with an equal timestamp     *)
(* never replaces a candidate.  The first row takes an empty candidate.    *)
(***************************************************************************)
\* the row of the last update is strictly before the candidate, or there
\* was no candidate
StrictlyBefore(r, cand) == ~cand.found \/ r.ts < cand.ts

\* the candidate after the update is the row of the update
TakenFrom(cand, r) ==
  cand = [found |-> TRUE, ts |-> r.ts, null |-> r.null, val |-> r.val]

C30_FirstUpdateRule ==
  fl.call # "none" =>
    /\ IF StrictlyBefore(fl.row, fl.prev.first) /\ ~fl.row.null
       THEN TakenFrom(fl.f.first, fl.row)
       ELSE fl.f.first = fl.prev.first
    /\ IF StrictlyBefore(fl.row, fl.prev.first_row)
       THEN TakenFrom(fl.f.first_row, fl.row)
       ELSE fl.f.first_row = fl.prev.first_row

\* a null row strictly before both candidates has replaced the first_row
\* candidate and left the first candidate
C30_Witness ==
  /\ fl.call = "updateFirstLastCols"
  /\ fl.prev.first.found
  /\ fl.row.null
  /\ fl.row.ts < fl.prev.first_row.ts
  /\ fl.f.first = fl.prev.first
  /\ fl.f.first_row.ts = fl.row.ts

\* a row of the candidate's timestamp with another value has left both
\* candidates
C30_WitnessEqual ==
  /\ fl.call = "updateFirstCols"
  /\ fl.prev.first.found
  /\ fl.row.ts = fl.prev.first.ts
  /\ fl.row.ts = fl.prev.first_row.ts
  /\ ~fl.row.null
  /\ fl.row.val # fl.prev.first.val
  /\ fl.f = fl.prev

(***************************************************************************)
(* C31: every row tombstoned by dedup during a put is reported to its      *)
(* partition when the put is published, and after the publish              *)
(* is_agg_res_available is false for each block that contains such a       *)
(* tombstoned row.                                                         *)
(***************************************************************************)
\* the step is the publish of a put that succeeded
PublishStep == wr.pc # "idle" /\ wr'.pc = "idle" /\ wr.all_success

\* the published live rows of the put's entity that a row of the payload
\* written so far collides with
ReplacedRows(p) ==
  {rid \in PubRowIds(store[p]) :
     /\ store[p][rid[1]].entity_id = wr.entity_id
     /\ rid[2] \notin store[p][rid[1]].deleted
     /\ \E i \in 1..wr.batch_start : wr.payload[i].ts = store[p][rid[1]].rows[rid[2]].ts}

\* the row is a tombstone after the step and its block has lost the flag
TombstonedUnflagged(p, rid) ==
  /\ rid[2] \in store'[p][rid[1]].deleted
  /\ ~store'[p][rid[1]].is_agg_res_available

\* C31: at the publish step of a successful put every published live row
\* that a payload row replaced is in del_real_rows of its partition, and
\* every row of del_real_rows is a tombstone afterwards in a block whose
\* is_agg_res_available is false
C31_DedupTombstonesReported ==
  [][PublishStep =>
       \A p \in PartitionTimes :
         /\ ReplacedRows(p) \subseteq wr.info[p].del_real_rows
         /\ \A rid \in wr.info[p].del_real_rows : TombstonedUnflagged(p, rid)]_vars

\* after a publish, a full block of the entity holds a row that dedup
\* tombstoned and is not flagged
C31_Witness ==
  /\ wr.pc = "idle"
  /\ wr.status = "SUCCESS"
  /\ dedup_seen
  /\ \E p \in PartitionTimes : \E i \in 1..Len(store[p]) :
       /\ store[p][i].publish_row_count >= block_rows
       /\ store[p][i].deleted # {}
       /\ ~store[p][i].is_agg_res_available

(***************************************************************************)
(* C32: entity allocation under concurrent PutData                         *)
(***************************************************************************)
\* the callers that returned for this primary tag, and the entities
\* allocated for it
Returned(tag) == {t \in AllocThreads : ea.at[t].pc = "done" /\ ea.at[t].tag = tag}
InFlight(tag) == {t \in AllocThreads : ea.at[t].pc \notin {"idle", "done"} /\ ea.at[t].tag = tag}
AllocatedFor(tag) == {i \in 1..Len(ea.allocated) : ea.allocated[i] = tag}
TagRows(tag) == {i \in 1..Len(ea.tag_bt) : ea.tag_bt[i].tag = tag}

\* C32: when the calls of PutData for one primary tag have returned and none
\* of them failed, exactly one entity was allocated for the tag, exactly one
\* tag row was inserted for it, and every caller obtained that entity
C32_AllocationExactlyOnce ==
  \A tag \in PrimaryTags :
    (ea.faults = 0 /\ Returned(tag) # {} /\ InFlight(tag) = {})
    => /\ Cardinality(AllocatedFor(tag)) = 1
       /\ Cardinality(TagRows(tag)) = 1
       /\ \A t \in Returned(tag) :
            ea.at[t].status = "SUCCESS" /\ ea.at[t].entityid = getEntityIdGroupId(ea.tag_bt, tag)

\* what the code keeps: a primary tag never has two tag rows, the lookups
\* return the entity of the row, and at most one entity is allocated per
\* tag-carrying payload that did not fail
TagRowAtMostOnce ==
  \A tag \in PrimaryTags :
    /\ Cardinality(TagRows(tag)) <= 1
    /\ \A t \in Returned(tag) :
         ea.at[t].status = "SUCCESS" =>
           \/ ea.at[t].entityid = getEntityIdGroupId(ea.tag_bt, tag)
           \/ ea.at[t].fresh /\ ea.at[t].flag = "DATA_ONLY"

\* two callers returned different entities for one primary tag, no call failed
TwoEntitiesForOneTag ==
  /\ ea.faults = 0
  /\ \E t, u \in AllocThreads :
       /\ ea.at[t].pc = "done" /\ ea.at[u].pc = "done" /\ ea.at[t].tag = ea.at[u].tag
       /\ ea.at[t].entityid # ea.at[u].entityid

(***************************************************************************)
(* C33: replayed schema DDL                                                *)
(***************************************************************************)
\* the step is an AddColumn of a metric column the root table has, or a
\* DropColumn of a metric column it does not have
ReplayedAdd ==
  /\ ddl'.last.call = "AddColumn" /\ ddl'.last.attr = "metric"
  /\ getColumnIndex(ddl.schema, ddl'.last.col) >= 0
ReplayedDrop ==
  /\ ddl'.last.call = "DropColumn" /\ ddl'.last.attr = "metric"
  /\ getColumnIndex(ddl.schema, ddl'.last.col) < 0

\* C33: AddColumn of a metric column that already exists, and DropColumn of
\* a metric column that is already absent, return SUCCESS and leave the
\* schema and the entity groups' column data as they were, whatever would
\* have failed otherwise
C33_ReplayedDdlIdempotent ==
  [][(ddl' # ddl /\ (ReplayedAdd \/ ReplayedDrop))
      => ddl'.last.status = "SUCCESS" /\ ddl'.schema = ddl.schema /\ ddl'.eg = ddl.eg]_vars

\* an AddColumn was replayed on a table that has the column
C33_Witness ==
  /\ ddl.last.call = "AddColumn" /\ ddl.last.attr = "metric" /\ ddl.last.existed
  /\ ddl.last.status = "SUCCESS"
  /\ Len(ddl.schema) = 2

\* a DropColumn was replayed on a table that does not have the column
C33_WitnessDrop ==
  /\ ddl.last.call = "DropColumn" /\ ddl.last.attr = "metric" /\ ~ddl.last.existed
  /\ ddl.last.status = "SUCCESS"
  /\ Len(ddl.schema) = 2

(***************************************************************************)
(* C34: termination of the partition loop of putDataColumnar               *)
(***************************************************************************)
\* C34: a call of putDataColumnar that is in its partition loop returns
C34_PutTerminates == (lp.pc = "loop") ~> (lp.pc = "done")

\* the step is an iteration of the loop
IterationStep ==
  /\ lp.pc = "loop" /\ lp'.valid = lp.valid
  /\ payloadNextSlice(lp.payload, lp.last_p_time, lp.batch_start).found

\* every iteration advances the cursor or leaves the loop
IterationAdvancesOrLeaves ==
  [][IterationStep => lp'.batch_start > lp.batch_start \/ lp'.pc # "loop"]_vars

\* what the code keeps: an iteration on a valid partition advances the
\* cursor or leaves the loop, and the call returns when the partitions of
\* its payload stay valid
ValidIterationAdvances ==
  [][(IterationStep /\ lp.valid[lp.last_p_time])
      => lp'.batch_start > lp.batch_start \/ lp'.pc # "loop"]_vars

TerminatesOnValidPartitions ==
  ([](\A p \in PartitionTimes : lp.valid[p])) => C34_PutTerminates

\* the loop met an invalid partition and is still at the same slice
SpinsOnInvalidPartition ==
  /\ lp.pc = "loop" /\ lp.errcode = "DEDUPREJECT" /\ ~lp.valid[lp.last_p_time]
  /\ payloadNextSlice(lp.payload, lp.last_p_time, lp.batch_start).found

(***************************************************************************)
(* C35: partition references on the write and delete paths                 *)
(***************************************************************************)
\* the references of partition p nobody holds (positive) or somebody holds
\* without being counted (negative)
Imbalance(c, p) ==
  c.ref[p] - ((IF c.it_live /\ p \in c.p_bts THEN 1 ELSE 0) + (IF p \in c.info THEN 1 ELSE 0))

\* C35: every reference taken by putDataColumnar or DeleteData is released
\* exactly once: the reference count of a partition is the number of its
\* holders (the live iterator, the put in progress) on every path
C35_ReferenceBalance == \A p \in PartitionTimes : Imbalance(pcache, p) = 0

\* what the code keeps: the iterations that leave the loop (a failed
\* GetPartitionTable, a failed push_back_payload, the end of the payload)
\* and putAfterProcess neither leak nor release twice
LeavingStepsBalanced ==
  [][pcache'.put_pc # pcache.put_pc
      => \A p \in PartitionTimes : Imbalance(pcache', p) = Imbalance(pcache, p)]_vars

\* a reference nobody will release: an iteration met an invalid partition
LeakedReference ==
  pcache.put_pc = "idle" /\ \E p \in PartitionTimes : Imbalance(pcache, p) > 0

\* a reference released twice: a delete failed in a partition
ReleasedTwice == \E p \in PartitionTimes : Imbalance(pcache, p) < 0

(***************************************************************************)
(* C36: blocks the aggregate iterator takes whole                          *)
(***************************************************************************)
\* every published row of the block is live and inside one of the spans
WholeBlockSelected(b, spans) ==
  \A k \in 1..b.publish_row_count : LiveInSpan(b, k, spans)

\* C36: a block that the sequential read optimization of traverseAllBlocks
\* takes whole has every row inside one of the requested spans, whatever
\* the spans are
C36_WholeBlockOnlyIfAllSelected ==
  \A p \in PartitionTimes : \A i \in 1..Len(store[p]) : \A spans \in SpanChoices :
     AggFastPath(store[p][i], 1, spans) => WholeBlockSelected(store[p][i], spans)

\* what the code keeps: for a request of one span the optimization takes a
\* block whole only when all its rows are selected
WholeBlockSingleSpan ==
  \A p \in PartitionTimes : \A i \in 1..Len(store[p]) : \A spans \in SpanChoices :
     (Len(spans) = 1 /\ AggFastPath(store[p][i], 1, spans))
       => WholeBlockSelected(store[p][i], spans)

\* a block whose smallest and largest timestamps lie in two different spans
\* and that has a row between the spans passes the optimization
TakenWholeAcrossSpans ==
  \E p \in PartitionTimes : \E i \in 1..Len(store[p]) : \E spans \in SpanChoices :
     /\ AggFastPath(store[p][i], 1, spans)
     /\ ~isTimestampWithinSpans(spans, store[p][i].min_ts, store[p][i].max_ts)
     /\ ~WholeBlockSelected(store[p][i], spans)

(***************************************************************************)
(* C37: DropAll returns                                                    *)
(***************************************************************************)
InDropAll == tab.th[1].call = "DropAll" /\ tab.th[1].pc # "done"

\* C37: a call of DropAll returns, also when dropping an entity group
\* failed and DropAll re-initialises the table
C37_DropAllReturns == InDropAll ~> (tab.th[1].pc = "done")

\* what the code keeps: DropAll returns or blocks in the lock of Init, and
\* it blocks there only after a failed drop, holding the lock itself
DropAllReturnsOrBlocks == InDropAll ~> (tab.th[1].pc \in {"done", "blocked"})

BlockedOnlyOnOwnLock ==
  tab.th[1].pc = "blocked" => tab.writer = 1 /\ tab.drop.s = "FAIL" /\ tab.entity_bt_

\* DropAll waits in Init for the lock it holds
DropAllSelfDeadlock == tab.th[1].pc = "blocked" /\ tab.writer = 1

(***************************************************************************)
(* C38: concurrent CreateEntityGroup of one range group                    *)
(***************************************************************************)
\* the calls of CreateEntityGroup for range group g that returned SUCCESS
CreatedBy(g) ==
  {t \in TableThreads : tab.th[t].pc = "done" /\ tab.th[t].g = g /\ tab.th[t].status = "SUCCESS"}

\* C38: of the calls of CreateEntityGroup for one range group at most one
\* returns SUCCESS, and an entity group that is registered is never replaced
\* by another instance
C38_CreateOnce ==
  [][/\ \A g \in TableGroups : Cardinality(CreatedBy(g))' <= 1
     /\ \A g \in TableGroups :
          tab.entity_groups_[g] # 0 => tab'.entity_groups_[g] = tab.entity_groups_[g]]_vars

\* what the code keeps: a call whose lookup finds the range group
\* registered returns FAIL and changes nothing
FoundAtLookupFails ==
  [][\A t \in TableThreads :
       (tab.th[t].pc = "check" /\ tab'.th[t] # tab.th[t]
          /\ tab.entity_groups_[tab.th[t].g] # 0)
       => tab'.th[t].status = "FAIL" /\ tab'.entity_groups_ = tab.entity_groups_]_vars

\* both threads returned SUCCESS for the same range group
BothCreated == \E g \in TableGroups : CreatedBy(g) = TableThreads

(***************************************************************************)
(* C39: references on the tag table                                        *)
(***************************************************************************)
\* C39: after every tag-schema operation the reference count of the tag
\* table is what it was before the call
C39_TagTableBalance == tg.last.call # "none" => tg.ref = tg.last.before

\* what the code keeps: the count is restored unless AddTagInfo met a tag
\* table that is not valid or an undo variant met a failed operation
BalancedElsewhere ==
  (/\ tg.last.call # "none"
   /\ ~(tg.last.call = "AddTagInfo" /\ ~tg.last.got)
   /\ ~(ReturnsUnreleased(tg.last.call) /\ tg.last.got /\ ~tg.last.op_ok))
  => tg.ref = tg.last.before

\* an undo variant returned FAIL and kept its reference
TagReferenceLeaked ==
  ReturnsUnreleased(tg.last.call) /\ tg.last.status = "FAIL" /\ tg.ref > tg.last.before

\* AddTagInfo released a reference it never got
ReleasedAfterFailedGet ==
  tg.last.call = "AddTagInfo" /\ ~tg.last.got /\ tg.ref < tg.last.before

(***************************************************************************)
(* C40: DISTINCT with OFFSET                                               *)
(***************************************************************************)
NoRepeat(keys) == \A i, j \in 1..Len(keys) : keys[i] = keys[j] => i = j
KeysOf(keys) == {keys[i] : i \in 1..Len(keys)}

\* C40: over all Next calls no key is emitted twice, no key is counted
\* against OFFSET twice, no key passed over for OFFSET is emitted, and once
\* a key is emitted OFFSET distinct keys were passed over
C40_DistinctOffset ==
  /\ NoRepeat(ds.emitted)
  /\ NoRepeat(ds.skipped)
  /\ KeysOf(ds.skipped) \cap KeysOf(ds.emitted) = {}
  /\ ds.emitted # <<>> => Cardinality(KeysOf(ds.skipped)) = ds.offset_

\* what the code keeps: no key is emitted twice, the emitted keys are the
\* keys of seen, and OFFSET rows with unseen keys are passed over before
\* the first row is emitted
EmittedOnceAfterOffsetRows ==
  /\ NoRepeat(ds.emitted)
  /\ KeysOf(ds.emitted) = ds.seen
  /\ Len(ds.skipped) + ds.cur_offset_ = ds.offset_
  /\ ds.emitted # <<>> => Len(ds.skipped) = ds.offset_

\* a key passed over for OFFSET was emitted by a later row
SkippedKeyEmitted == KeysOf(ds.skipped) \cap KeysOf(ds.emitted) # {}

\* a key was counted against OFFSET twice
SkippedKeyCountedTwice == ~NoRepeat(ds.skipped)

====
